---- MODULE Spec2Model ----
(***************************************************************************)
(* Model of the "overall" repository tracker: the SQLite store             *)
(* (overall-cli/src/storage), the scan pipeline (overall-cli/src/main.rs), *)
(* the grouping endpoints (overall-cli/src/server), the branch status      *)
(* classifier (overall-cli/src/github/commands.rs) and the priority scorer *)
(* (wasm-ui/src/lib.rs).                                                   *)
(***************************************************************************)
EXTENDS Integers, Sequences, FiniteSets, TLC

VARIABLES
    cl,             \* classifier harness: inputs and result of classify_branch_status
    prio,           \* scorer harness: inputs and result of calculate_repo_status_priority
    repositories,   \* table repositories: set of repository ids
    branches,       \* table branches: set of rows
    pull_requests,  \* table pull_requests: set of rows
    commits,        \* table commits: set of rows
    groups,         \* table groups: set of rows
    repo_groups,    \* table repo_groups: set of <<repo_id, group_id>>
    nextId,         \* per-table rowid allocator
    gw,             \* what the gh gateway currently answers, per repository
    scan,           \* position and locals of the Commands::Scan loop
    hist,           \* history of the scan runs (what was upstream, what was stored)
    ev,             \* the last completed grouping call and what it saw
    snap,           \* the export snapshot builder: position, locals, entries built
    repos_json,     \* static/repos.json: the snapshot last written
    srv,            \* the server's request handlers: position and locals of each
    db_lock,        \* AppState.db, the Mutex<Database>: who holds it
    local_repo_roots, \* table local_repo_roots: set of rows
    local_repo_status, \* table local_repo_status: set of rows, one per repo_id
    race,           \* two scan processes writing the branches of one repository
    gate,           \* gateway call harness: the call made and whether gh was run
    config,         \* table config: set of rows <<key, value>>
    cfg,            \* history of the config calls: last value set per key, last read
    mv,             \* position and arguments of one Database::move_repo_to_group call
    local_hist      \* the checkouts on disk and the history of the local scans

vars == <<cl, prio, repositories, branches, pull_requests, commits, groups,
          repo_groups, nextId, gw, scan, hist, ev,
          snap, repos_json, srv, db_lock, local_repo_roots, local_repo_status, race, gate,
          config, cfg, mv, local_hist>>

\* the state of the server, the export, the race and the gateway harness
extVars == <<snap, repos_json, srv, db_lock, local_repo_roots, local_repo_status, race, gate,
            config, cfg, mv, local_hist>>

\* the config table, the two-step move and the histories of both and of the local scans
auxVars == <<config, cfg, mv, local_hist>>

storeVars == <<repositories, branches, pull_requests, commits, groups,
               repo_groups, nextId>>

(***************************************************************************)
(* Bounds of the model                                                     *)
(***************************************************************************)
MaxCount == 1       \* largest ahead_by / behind_by / file count drawn
MaxPRs == 2         \* longest pull-request list drawn
MaxBranches == 2    \* most branches on the repository given to the scorer

(***************************************************************************)
(* Option<T>: None is the empty set, Some(x) the singleton                 *)
(***************************************************************************)
None == {}
Some(x) == {x}
is_none(o) == o = {}
unwrap(o) == CHOOSE x \in o : TRUE

Counts == 0..MaxCount
BranchNames == {"main", "feat"}
BranchStatus == {"ReadyForPR", "InReview", "ReadyToMerge", "NeedsUpdate", "HasConflicts"}
PRState == {"Open", "Closed", "Merged"}

SeqsUpTo(S, n) == UNION {[1..k -> S] : k \in 0..n}

\* the search taking the last pull request without a branch_id
FindLastUnlinkedPR(prs) ==
    LET idx == {i \in 1..Len(prs) : is_none(prs[i].branch_id)}
    IN IF idx = {} THEN None
       ELSE Some(prs[CHOOSE i \in idx : \A j \in idx : j <= i])

(***************************************************************************)
(* Branch status classifier                                                *)
(***************************************************************************)
\* prs.iter().find(|pr| pr.branch_id.is_none()): the first unlinked pull request
FindPR(prs) ==
    LET idx == {i \in 1..Len(prs) : is_none(prs[i].branch_id)}
    IN IF idx = {} THEN None
       ELSE Some(prs[CHOOSE i \in idx : \A j \in idx : i <= j])

\* classifier with the operands of the Open arm swapped for ahead_by
classify_uses_ahead(branch, prs, default_branch) ==
    IF branch.name = default_branch THEN "ReadyForPR"
    ELSE LET pr == FindPR(prs)
         IN IF ~is_none(pr) /\ unwrap(pr).state = "Open"
            THEN IF branch.ahead_by > 0 THEN "NeedsUpdate" ELSE "InReview"
            ELSE "ReadyForPR"

\* classifier without the default-branch early return
classify_no_default_check(branch, prs, default_branch) ==
    LET pr == FindPR(prs)
    IN IF ~is_none(pr) /\ unwrap(pr).state = "Open"
       THEN IF branch.behind_by > 0 THEN "NeedsUpdate" ELSE "InReview"
       ELSE "ReadyForPR"

classify_branch_status(branch, prs, default_branch) ==
    IF branch.name = default_branch
    THEN "ReadyForPR"
    ELSE LET pr == FindPR(prs)
         IN IF ~is_none(pr) /\ unwrap(pr).state = "Open"
            THEN IF branch.behind_by > 0 THEN "NeedsUpdate" ELSE "InReview"
            ELSE IF ~is_none(pr) /\ unwrap(pr).state = "Merged"
                 THEN "ReadyForPR"
                 ELSE "ReadyForPR"

ClBranchIds == 1..2
ClBranches == [id : ClBranchIds, name : BranchNames, ahead_by : Counts, behind_by : Counts]
ClPRs == [branch_id : {None} \cup {Some(i) : i \in ClBranchIds}, state : PRState]

ClIdle == [done |-> FALSE,
           branch |-> [id |-> 1, name |-> "main", ahead_by |-> 0, behind_by |-> 0],
           prs |-> <<>>, default_branch |-> "main", result |-> "ReadyForPR"]

ClassifyInit ==
    \E b \in ClBranches, ps \in SeqsUpTo(ClPRs, MaxPRs), d \in BranchNames :
        cl = [done |-> FALSE, branch |-> b, prs |-> ps, default_branch |-> d,
              result |-> "ReadyForPR"]

Classify ==
    /\ ~cl.done
    /\ cl' = [cl EXCEPT !.done = TRUE,
                        !.result = classify_branch_status(cl.branch, cl.prs, cl.default_branch)]
    /\ UNCHANGED <<prio, repositories, branches, pull_requests, commits, groups,
                   repo_groups, nextId, gw, scan, hist, ev>>
    /\ UNCHANGED extVars

(***************************************************************************)
(* Priority scorer                                                         *)
(***************************************************************************)
RECURSIVE any_branch_diverged(_, _)
\* for branch in &repo.branches { if branch.ahead > 0 || branch.behind > 0 { return 0 } }
any_branch_diverged(bs, i) ==
    IF i > Len(bs) THEN FALSE
    ELSE IF bs[i].ahead > 0 \/ bs[i].behind > 0 THEN TRUE
    ELSE any_branch_diverged(bs, i + 1)

\* scorer that looks at uncommitted files before the branch loop
priority_local_first(repo, local_status) ==
    IF ~is_none(local_status)
       /\ (unwrap(local_status).unpushed_commits > 0 \/ unwrap(local_status).behind_commits > 0)
    THEN 0
    ELSE IF ~is_none(local_status) /\ unwrap(local_status).uncommitted_files > 0
    THEN 1
    ELSE IF any_branch_diverged(repo.branches, 1)
    THEN 0
    ELSE IF repo.unmerged_count > 0
    THEN 2
    ELSE 3

calculate_repo_status_priority(repo, local_status) ==
    IF ~is_none(local_status)
       /\ (unwrap(local_status).unpushed_commits > 0 \/ unwrap(local_status).behind_commits > 0)
    THEN 0
    ELSE IF any_branch_diverged(repo.branches, 1)
    THEN 0
    ELSE IF ~is_none(local_status) /\ unwrap(local_status).uncommitted_files > 0
    THEN 1
    ELSE IF repo.unmerged_count > 0
    THEN 2
    ELSE 3

UiBranches == [ahead : Counts, behind : Counts]
UiRepos == [branches : SeqsUpTo(UiBranches, MaxBranches), unmerged_count : Counts]
UiLocalStatus == [unpushed_commits : Counts, behind_commits : Counts, uncommitted_files : Counts]

PrioIdle == [done |-> FALSE, repo |-> [branches |-> <<>>, unmerged_count |-> 0],
             local_status |-> None, result |-> 3]

PriorityInit ==
    \E r \in UiRepos, ls \in {None} \cup {Some(s) : s \in UiLocalStatus} :
        prio = [done |-> FALSE, repo |-> r, local_status |-> ls, result |-> 3]

Score ==
    /\ ~prio.done
    /\ prio' = [prio EXCEPT !.done = TRUE,
                            !.result = calculate_repo_status_priority(prio.repo, prio.local_status)]
    /\ UNCHANGED <<cl, repositories, branches, pull_requests, commits, groups,
                   repo_groups, nextId, gw, scan, hist, ev>>
    /\ UNCHANGED extVars

(***************************************************************************)
(* The store: tables and the constraints of schema.sql                     *)
(***************************************************************************)
Repos == {"r1", "r2"}
GroupNames == {"work"}
MaxGroups == 2      \* groups ever created in one behaviour

GroupIds == 1..MaxGroups

\* rowid handed out by an AUTOINCREMENT table: never reused
FreshId(table) == nextId[table]

\* foreign keys of repo_groups (PRAGMA foreign_keys = ON)
RepoGroupsFkOk(repo_id, group_id) ==
    /\ repo_id \in repositories
    /\ \E g \in groups : g.id = group_id

GroupsOf(repo_id) == {rg[2] : rg \in {x \in repo_groups : x[1] = repo_id}}

\* SELECT ... FROM repositories r INNER JOIN repo_groups rg ... WHERE rg.group_id = ?1
get_repos_in_group(group_id) ==
    {r \in repositories : <<r, group_id>> \in repo_groups}

\* SELECT ... FROM repositories WHERE id NOT IN (SELECT repo_id FROM repo_groups)
get_ungrouped_repositories ==
    {r \in repositories : r \notin {rg[1] : rg \in repo_groups}}

\* SELECT ... FROM groups ORDER BY display_order
get_all_groups == groups

EvNone == [op |-> "none", repo |-> "r1", group |-> 0, ok |-> TRUE,
           members |-> {}, repos_before |-> {}]

\* ON DELETE CASCADE from groups to repo_groups
CascadeRepoGroups(group_id) == {rg \in repo_groups : rg[2] # group_id}

\* INSERT OR IGNORE INTO repo_groups (repo_id, group_id, added_at)
add_repo_to_group(repo_id, group_id) ==
    repo_groups \cup {<<repo_id, group_id>>}

\* Database::save_repository: INSERT OR REPLACE INTO repositories
save_repository(repo_id) == repositories \cup {repo_id}

\* the memberships of a repository deleted with the row that REPLACE removes
RepoGroupsCascade(rgs, repo_id) == {rg \in rgs : rg[1] # repo_id}

\* repo_groups after INSERT OR REPLACE INTO repositories: the row of the same id
\* is back when the statement ends, where the foreign key is checked, and only
\* groups hand their deletion down to repo_groups
RepoGroupsAfterReplace(rgs, repo_id) == rgs

SaveRepository(r) ==
    /\ repositories' = save_repository(r)
    /\ repo_groups' = RepoGroupsAfterReplace(repo_groups, r)
    /\ ev' = [EvNone EXCEPT !.op = "save_repository", !.repo = r]
    /\ UNCHANGED <<cl, prio, branches, pull_requests, commits, groups,
                   nextId, gw, scan, hist>>
    /\ UNCHANGED extVars

\* Result::unwrap_or_default on the rows of a read: nothing when the read failed
unwrap_or_default(read_ok, rows) == IF read_ok THEN rows ELSE {}

\* .iter().map(|g| g.display_order).max().unwrap_or(-1)
max_order(gs) ==
    LET orders == {g.display_order : g \in gs}
    IN IF orders = {} THEN -1 ELSE CHOOSE m \in orders : \A o \in orders : o <= m

\* add_repos_to_group, new-group branch: max display_order + 1 and create_group
\* under one lock hold
CreateGroup(name) ==
    /\ nextId.groups <= MaxGroups
    /\ \E read_ok \in BOOLEAN :
       LET id == FreshId("groups")
       IN /\ groups' = groups \cup
                {[id |-> id, name |-> name,
                  display_order |-> max_order(unwrap_or_default(read_ok, get_all_groups)) + 1]}
          /\ nextId' = [nextId EXCEPT !.groups = @ + 1]
          /\ ev' = [EvNone EXCEPT !.op = "create_group", !.group = id]
    /\ UNCHANGED <<cl, prio, repositories, branches, pull_requests, commits,
                   repo_groups, gw, scan, hist>>
    /\ UNCHANGED extVars

\* Database::add_repo_to_group, as called for each repo_id by add_repos_to_group
AddRepoToGroup(r, g) ==
    /\ LET ok == RepoGroupsFkOk(r, g)
       IN /\ repo_groups' = IF ok THEN add_repo_to_group(r, g) ELSE repo_groups
          /\ ev' = [EvNone EXCEPT !.op = "add_repo_to_group", !.repo = r,
                                  !.group = g, !.ok = ok]
    /\ UNCHANGED <<cl, prio, repositories, branches, pull_requests, commits,
                   groups, nextId, gw, scan, hist>>
    /\ UNCHANGED extVars

\* Database::move_repo_to_group: DELETE all memberships, then a plain INSERT
MoveRepoToGroup(r, g) ==
    /\ LET removed == {rg \in repo_groups : rg[1] # r}
           ok == RepoGroupsFkOk(r, g)
       IN /\ repo_groups' = IF ok THEN removed \cup {<<r, g>>} ELSE removed
          /\ ev' = [EvNone EXCEPT !.op = "move_repo_to_group", !.repo = r,
                                  !.group = g, !.ok = ok]
    /\ UNCHANGED <<cl, prio, repositories, branches, pull_requests, commits,
                   groups, nextId, gw, scan, hist>>
    /\ UNCHANGED extVars

\* Database::remove_repo_from_all_groups
RemoveRepoFromAllGroups(r) ==
    /\ repo_groups' = {rg \in repo_groups : rg[1] # r}
    /\ ev' = [EvNone EXCEPT !.op = "remove_repo_from_all_groups", !.repo = r]
    /\ UNCHANGED <<cl, prio, repositories, branches, pull_requests, commits,
                   groups, nextId, gw, scan, hist>>
    /\ UNCHANGED extVars

\* Database::delete_group: DELETE FROM groups WHERE id = ?1
DeleteGroup(g) ==
    /\ groups' = {x \in groups : x.id # g}
    /\ repo_groups' = CascadeRepoGroups(g)
    /\ ev' = [EvNone EXCEPT !.op = "delete_group", !.group = g,
                            !.members = get_repos_in_group(g),
                            !.repos_before = repositories]
    /\ UNCHANGED <<cl, prio, repositories, branches, pull_requests, commits,
                   nextId, gw, scan, hist>>
    /\ UNCHANGED extVars

(***************************************************************************)
(* The gh gateway, as seen by one scan                                     *)
(***************************************************************************)
MaxScanPRs == 1     \* longest pull-request list the gateway returns
MaxCommits == 1     \* longest commit list the gateway returns
MaxScans == 2       \* scan runs in one behaviour
MaxStoreFailures == 1   \* store calls that fail in one behaviour
MaxUpstreamChanges == 1 \* upstream changes in one behaviour
CommitLimit == 50   \* .take(50) of fetch_commits

DefaultBranch == "main"
\* what list_repos returns, most recently pushed first: one repository for the
\* owner, or two
ScanOrderOne == <<"r1">>
ScanOrderTwo == <<"r1", "r2">>
ScanOrder == hist.order
ScanRepos == {ScanOrder[n] : n \in 1..Len(ScanOrder)}

Take(s, n) == IF Len(s) <= n THEN s ELSE SubSeq(s, 1, n)

UpMain == [name |-> "main", ahead_by |-> 0, behind_by |-> 0]
UpFeat == [name : {"feat"}, ahead_by : Counts, behind_by : Counts]
UpBranchLists == {<<UpMain>>} \cup {<<f, UpMain>> : f \in UpFeat}
UpPRLists ==
    UNION {{[n \in 1..k |-> [number |-> k + 1 - n, state |-> st[n]]] : st \in [1..k -> PRState]}
           : k \in 0..MaxScanPRs}
UpCommitLists == {[n \in 1..k |-> n] : k \in 1..MaxCommits}
GatewayFailures == {"none", "branches", "commits", "pull_requests"}
Fixtures == [branches : UpBranchLists, prs : UpPRLists, commits : UpCommitLists,
             fail : GatewayFailures]

\* a TEXT column value: the string s as stored, distinct from the enum variant
Text(s) == <<s>>

\* impl fmt::Display for BranchStatus
BranchStatusToString(st) ==
    CASE st = "ReadyForPR" -> Text("ReadyForPR")
      [] st = "InReview" -> Text("InReview")
      [] st = "ReadyToMerge" -> Text("ReadyToMerge")
      [] st = "NeedsUpdate" -> Text("NeedsUpdate")
      [] st = "HasConflicts" -> Text("HasConflicts")

\* status_str.parse().unwrap_or(BranchStatus::ReadyForPR)
ParseBranchStatus(str) ==
    CASE str = Text("ReadyForPR") -> "ReadyForPR"
      [] str = Text("InReview") -> "InReview"
      [] str = Text("ReadyToMerge") -> "ReadyToMerge"
      [] str = Text("NeedsUpdate") -> "NeedsUpdate"
      [] str = Text("HasConflicts") -> "HasConflicts"
      [] OTHER -> "ReadyForPR"

\* impl fmt::Display for PRState
PRStateToString(st) ==
    CASE st = "Open" -> Text("Open")
      [] st = "Closed" -> Text("Closed")
      [] st = "Merged" -> Text("Merged")

\* state_str.parse().unwrap_or(PRState::Closed)
ParsePRState(str) ==
    CASE str = Text("Open") -> "Open"
      [] str = Text("Closed") -> "Closed"
      [] str = Text("Merged") -> "Merged"
      [] OTHER -> "Closed"

\* github::fetch_branches: every Branch leaves the gateway as ReadyForPR
fetch_branches(repo_id) ==
    [n \in 1..Len(gw[repo_id].branches) |->
        [id |-> n - 1, repo_id |-> repo_id,
         name |-> gw[repo_id].branches[n].name,
         ahead_by |-> IF gw[repo_id].branches[n].name = DefaultBranch THEN 0
                      ELSE gw[repo_id].branches[n].ahead_by,
         behind_by |-> IF gw[repo_id].branches[n].name = DefaultBranch THEN 0
                       ELSE gw[repo_id].branches[n].behind_by,
         status |-> "ReadyForPR"]]

\* github::fetch_pull_requests: branch_id is always None
fetch_pull_requests(repo_id) ==
    [n \in 1..Len(gw[repo_id].prs) |->
        [id |-> n - 1, repo_id |-> repo_id, branch_id |-> None,
         number |-> gw[repo_id].prs[n].number, state |-> gw[repo_id].prs[n].state]]

\* github::fetch_commits without the .take(50)
fetch_commits_all(repo_id, branch_name, branch_id) ==
    [n \in 1..Len(gw[repo_id].commits) |->
        [id |-> n - 1, branch_id |-> branch_id, sha |-> gw[repo_id].commits[n]]]

\* github::fetch_commits
fetch_commits(repo_id, branch_name, branch_id) ==
    LET all == gw[repo_id].commits
        kept == Take(all, CommitLimit)
    IN [n \in 1..Len(kept) |-> [id |-> n - 1, branch_id |-> branch_id, sha |-> kept[n]]]

(***************************************************************************)
(* Store calls on branches, pull requests and commits                      *)
(***************************************************************************)
\* commits left behind when their branch rows are deleted
CommitsKeptAfterBranchDelete(cs, deleted) == cs

\* commits are owned by their branch: deleting branch rows deletes their commits
CommitsAfterBranchDelete(cs, deleted) ==
    {c \in cs : c.branch_id \notin {b.id : b \in deleted}}

\* Database::clear_branches_for_repo without the DELETE
clear_branches_noop(bs, repo_id) == bs

\* Database::clear_branches_for_repo
clear_branches_for_repo(bs, repo_id) == {b \in bs : b.repo_id # repo_id}

\* rows that INSERT OR REPLACE removes: same (repo_id, name)
BranchConflicts(bs, branch) ==
    {b \in bs : b.repo_id = branch.repo_id /\ b.name = branch.name}

\* Database::save_branch: the row written, under a fresh rowid
BranchRow(branch, id) ==
    [id |-> id, repo_id |-> branch.repo_id, name |-> branch.name,
     ahead_by |-> branch.ahead_by, behind_by |-> branch.behind_by,
     status |-> BranchStatusToString(branch.status)]

save_branch(bs, branch, id) ==
    (bs \ BranchConflicts(bs, branch)) \cup {BranchRow(branch, id)}

\* Database::get_branches_for_repo (ORDER BY name left out: the rows as a set)
get_branches_for_repo(repo_id) ==
    {[b EXCEPT !.status = ParseBranchStatus(b.status)] : b \in {x \in branches : x.repo_id = repo_id}}

\* Database::clear_pull_requests_for_repo without the DELETE
clear_pull_requests_noop(ps, repo_id) == ps

\* Database::clear_pull_requests_for_repo
clear_pull_requests_for_repo(ps, repo_id) == {p \in ps : p.repo_id # repo_id}

\* Database::save_pull_request: (repo_id, number) is a logical key only, the
\* row always goes in under a fresh rowid
save_pull_request(ps, pr, id) ==
    ps \cup {[id |-> id, repo_id |-> pr.repo_id, branch_id |-> pr.branch_id,
              number |-> pr.number, state |-> PRStateToString(pr.state)]}

\* Database::get_pull_requests_for_repo
get_pull_requests_for_repo(repo_id) ==
    {[p EXCEPT !.state = ParsePRState(p.state)] : p \in {x \in pull_requests : x.repo_id = repo_id}}

\* Database::clear_commits_for_branch
clear_commits_for_branch(cs, branch_id) == {c \in cs : c.branch_id # branch_id}

\* Database::save_commit: the row goes in under a fresh rowid
save_commit(cs, commit, id) ==
    cs \cup {[id |-> id, branch_id |-> commit.branch_id, sha |-> commit.sha]}

\* Database::get_commits_for_branch
get_commits_for_branch(branch_id) == {c \in commits : c.branch_id = branch_id}

(***************************************************************************)
(* Commands::Scan (main.rs): one step per gateway call and per store call  *)
(***************************************************************************)
ScanIdle == [pc |-> "idle", i |-> 0, fetched |-> <<>>, j |-> 0, branch_id |-> 0,
             fcommits |-> <<>>, k |-> 0, fprs |-> <<>>, m |-> 0,
             repo_ok |-> FALSE, branches_ok |-> FALSE, prs_ok |-> FALSE]

CurRepo == ScanOrder[scan.i]

\* a store call returns Ok or, while the failure budget lasts, Err
StoreOutcomes == IF hist.fail_left > 0 THEN {TRUE, FALSE} ELSE {TRUE}
Noted(ok) == IF ok THEN hist ELSE [hist EXCEPT !.fail_left = @ - 1, !.clean_cur = FALSE]

\* where the branch loop goes after branch j
AfterBranch(sc) ==
    IF sc.j < Len(sc.fetched)
    THEN [sc EXCEPT !.pc = "save_branch", !.j = @ + 1, !.fcommits = <<>>, !.k = 0]
    ELSE [sc EXCEPT !.pc = "fetch_pull_requests", !.fcommits = <<>>, !.k = 0]

\* the upstream repository changes between two scans
UpstreamChange(r, f) ==
    /\ scan.pc = "idle"
    /\ hist.changes_left > 0
    /\ f # gw[r]
    /\ gw' = [gw EXCEPT ![r] = f]
    /\ hist' = [hist EXCEPT !.changes_left = @ - 1, !.same_gw = FALSE]
    /\ UNCHANGED <<cl, prio, repositories, branches, pull_requests, commits, groups,
                   repo_groups, nextId, scan, ev>>
    /\ UNCHANGED extVars

\* main.rs 84-95: list_repos succeeded, the loop starts
ScanStart ==
    /\ scan.pc = "idle"
    /\ hist.scans_left > 0
    /\ scan' = [ScanIdle EXCEPT !.pc = "save_repository", !.i = 1]
    /\ hist' = [hist EXCEPT !.scans_left = @ - 1, !.clean_cur = TRUE]
    /\ UNCHANGED <<cl, prio, repositories, branches, pull_requests, commits, groups,
                   repo_groups, nextId, gw, ev>>
    /\ UNCHANGED extVars

\* the error arm of save_repository ending the process instead of `continue`
after_save_repository_exit(ok) == IF ok THEN "fetch_branches" ELSE "exit"

\* main.rs 104-107: `if let Err(e) = db.save_repository(repo) { ...; continue; }`
after_save_repository(ok) == IF ok THEN "fetch_branches" ELSE "next_repo"

\* main.rs 104-107: save_repository, `continue` on error
ScanSaveRepository ==
    /\ scan.pc = "save_repository"
    /\ \E ok \in StoreOutcomes :
        /\ repositories' = IF ok THEN save_repository(CurRepo) ELSE repositories
        /\ repo_groups' = IF ok THEN RepoGroupsAfterReplace(repo_groups, CurRepo)
                          ELSE repo_groups
        /\ scan' = [scan EXCEPT !.pc = after_save_repository(ok), !.repo_ok = ok]
        /\ hist' = Noted(ok)
    /\ UNCHANGED <<cl, prio, branches, pull_requests, commits, groups,
                   nextId, gw, ev>>
    /\ UNCHANGED extVars

\* main.rs 111-113 / 155-157: fetch_branches
ScanFetchBranches ==
    /\ scan.pc = "fetch_branches"
    /\ scan' = IF gw[CurRepo].fail = "branches"
               THEN [scan EXCEPT !.pc = "fetch_pull_requests"]
               ELSE [scan EXCEPT !.pc = "clear_branches",
                                 !.fetched = fetch_branches(CurRepo)]
    /\ UNCHANGED <<cl, prio, repositories, branches, pull_requests, commits, groups,
                   repo_groups, nextId, gw, hist, ev>>
    /\ UNCHANGED extVars

\* main.rs 116-118: clear_branches_for_repo, an error is only printed
ScanClearBranches ==
    /\ scan.pc = "clear_branches"
    /\ \E ok \in StoreOutcomes :
        LET kept == IF ok THEN clear_branches_for_repo(branches, CurRepo) ELSE branches
        IN /\ branches' = kept
           /\ commits' = CommitsAfterBranchDelete(commits, branches \ kept)
           /\ scan' = IF Len(scan.fetched) = 0
                      THEN [scan EXCEPT !.pc = "fetch_pull_requests", !.branches_ok = ok]
                      ELSE [scan EXCEPT !.pc = "save_branch", !.j = 1, !.branches_ok = ok]
           /\ hist' = Noted(ok)
    /\ UNCHANGED <<cl, prio, repositories, pull_requests, groups, repo_groups,
                   nextId, gw, ev>>
    /\ UNCHANGED extVars

\* main.rs 121-125 / 149-151: save_branch; commits are wanted when ahead_by > 0
ScanSaveBranch ==
    /\ scan.pc = "save_branch"
    /\ \E okIo \in StoreOutcomes :
        LET branch == scan.fetched[scan.j]
            ok == okIo /\ branch.repo_id \in repositories
            id == FreshId("branches")
            last == scan.j = Len(scan.fetched)
        IN /\ branches' = IF ok THEN save_branch(branches, branch, id) ELSE branches
           /\ commits' = IF ok
                         THEN CommitsAfterBranchDelete(commits, BranchConflicts(branches, branch))
                         ELSE commits
           /\ nextId' = IF ok THEN [nextId EXCEPT !.branches = @ + 1] ELSE nextId
           /\ scan' = IF ok /\ branch.ahead_by > 0
                      THEN [scan EXCEPT !.pc = "fetch_commits", !.branch_id = id]
                      ELSE [AfterBranch(scan) EXCEPT !.branches_ok = @ /\ ok]
           /\ hist' = LET h == Noted(okIo)
                      IN IF last /\ ~(ok /\ branch.ahead_by > 0) /\ scan.branches_ok /\ ok
                         THEN [h EXCEPT !.replaces = @ + 1] ELSE h
    /\ UNCHANGED <<cl, prio, repositories, pull_requests, groups, repo_groups, gw, ev>>
    /\ UNCHANGED extVars

\* main.rs 127-129 / 143-145: fetch_commits for the branch just saved
ScanFetchCommits ==
    /\ scan.pc = "fetch_commits"
    /\ scan' = IF gw[CurRepo].fail = "commits"
               THEN AfterBranch(scan)
               ELSE [scan EXCEPT !.pc = "clear_commits",
                                 !.fcommits = fetch_commits(CurRepo,
                                                  scan.fetched[scan.j].name, scan.branch_id)]
    /\ hist' = IF gw[CurRepo].fail = "commits" /\ scan.j = Len(scan.fetched)
                  /\ scan.branches_ok
               THEN [hist EXCEPT !.replaces = @ + 1, !.asked = @ \cup {scan.branch_id}]
               ELSE [hist EXCEPT !.asked = @ \cup {scan.branch_id}]
    /\ UNCHANGED <<cl, prio, repositories, branches, pull_requests, commits, groups,
                   repo_groups, nextId, gw, ev>>
    /\ UNCHANGED extVars

\* main.rs 132-134: clear_commits_for_branch, an error is only printed
ScanClearCommits ==
    /\ scan.pc = "clear_commits"
    /\ \E ok \in StoreOutcomes :
        /\ commits' = IF ok THEN clear_commits_for_branch(commits, scan.branch_id)
                      ELSE commits
        /\ scan' = IF Len(scan.fcommits) = 0 THEN AfterBranch(scan)
                   ELSE [scan EXCEPT !.pc = "save_commit", !.k = 1]
        /\ hist' = LET h == Noted(ok)
                   IN IF Len(scan.fcommits) = 0 /\ scan.j = Len(scan.fetched)
                         /\ scan.branches_ok
                      THEN [h EXCEPT !.replaces = @ + 1] ELSE h
    /\ UNCHANGED <<cl, prio, repositories, branches, pull_requests, groups,
                   repo_groups, nextId, gw, ev>>
    /\ UNCHANGED extVars

\* main.rs 137-141: save_commit, an error is only printed
ScanSaveCommit ==
    /\ scan.pc = "save_commit"
    /\ \E okIo \in StoreOutcomes :
        LET commit == scan.fcommits[scan.k]
            ok == okIo /\ \E b \in branches : b.id = commit.branch_id
            id == FreshId("commits")
            last == scan.k = Len(scan.fcommits)
        IN /\ commits' = IF ok THEN save_commit(commits, commit, id) ELSE commits
           /\ nextId' = IF ok THEN [nextId EXCEPT !.commits = @ + 1] ELSE nextId
           /\ scan' = IF last THEN AfterBranch(scan) ELSE [scan EXCEPT !.k = @ + 1]
           /\ hist' = LET h == Noted(okIo)
                      IN IF last /\ scan.j = Len(scan.fetched) /\ scan.branches_ok
                         THEN [h EXCEPT !.replaces = @ + 1] ELSE h
    /\ UNCHANGED <<cl, prio, repositories, branches, pull_requests, groups,
                   repo_groups, gw, ev>>
    /\ UNCHANGED extVars

\* main.rs 162-164 / 178-180: fetch_pull_requests
ScanFetchPullRequests ==
    /\ scan.pc = "fetch_pull_requests"
    /\ scan' = IF gw[CurRepo].fail = "pull_requests"
               THEN [scan EXCEPT !.pc = "next_repo"]
               ELSE [scan EXCEPT !.pc = "clear_pull_requests",
                                 !.fprs = fetch_pull_requests(CurRepo)]
    /\ UNCHANGED <<cl, prio, repositories, branches, pull_requests, commits, groups,
                   repo_groups, nextId, gw, hist, ev>>
    /\ UNCHANGED extVars

\* main.rs 167-169: clear_pull_requests_for_repo, an error is only printed
ScanClearPullRequests ==
    /\ scan.pc = "clear_pull_requests"
    /\ \E ok \in StoreOutcomes :
        /\ pull_requests' = IF ok THEN clear_pull_requests_for_repo(pull_requests, CurRepo)
                            ELSE pull_requests
        /\ scan' = IF Len(scan.fprs) = 0
                   THEN [scan EXCEPT !.pc = "next_repo", !.prs_ok = ok]
                   ELSE [scan EXCEPT !.pc = "save_pull_request", !.m = 1, !.prs_ok = ok]
        /\ hist' = Noted(ok)
    /\ UNCHANGED <<cl, prio, repositories, branches, commits, groups, repo_groups,
                   nextId, gw, ev>>
    /\ UNCHANGED extVars

\* main.rs 172-176: save_pull_request, an error is only printed
ScanSavePullRequest ==
    /\ scan.pc = "save_pull_request"
    /\ \E okIo \in StoreOutcomes :
        LET pr == scan.fprs[scan.m]
            ok == okIo /\ pr.repo_id \in repositories
            id == FreshId("pull_requests")
        IN /\ pull_requests' = IF ok THEN save_pull_request(pull_requests, pr, id)
                               ELSE pull_requests
           /\ nextId' = IF ok THEN [nextId EXCEPT !.pull_requests = @ + 1] ELSE nextId
           /\ scan' = IF scan.m < Len(scan.fprs)
                      THEN [scan EXCEPT !.m = @ + 1, !.prs_ok = @ /\ ok]
                      ELSE [scan EXCEPT !.pc = "next_repo", !.prs_ok = @ /\ ok]
           /\ hist' = Noted(okIo)
    /\ UNCHANGED <<cl, prio, repositories, branches, commits, groups, repo_groups,
                   gw, ev>>
    /\ UNCHANGED extVars

\* main.rs 95 / 183-186: the next repository of the list, or the end of the scan
ScanNextRepo ==
    /\ scan.pc = "next_repo"
    /\ IF scan.i < Len(ScanOrder)
       THEN /\ scan' = [ScanIdle EXCEPT !.pc = "save_repository", !.i = scan.i + 1]
            /\ hist' = hist
       ELSE /\ scan' = ScanIdle
            /\ hist' = [hist EXCEPT !.runs = @ + 1,
                                    !.same_gw = TRUE,
                                    !.twice = hist.runs >= 1 /\ hist.same_gw
                                              /\ hist.clean_prev /\ hist.clean_cur,
                                    !.clean_prev = hist.clean_cur,
                                    !.prev = [branches |-> branches,
                                              pull_requests |-> pull_requests,
                                              commits |-> commits],
                                    !.before = hist.prev]
    /\ UNCHANGED <<cl, prio, repositories, branches, pull_requests, commits, groups,
                   repo_groups, nextId, gw, ev>>
    /\ UNCHANGED extVars

(***************************************************************************)
(* The export snapshot: regenerate_repos_json (server) and Commands::Export *)
(* (main.rs) run the same reads, one SELECT at a time                      *)
(***************************************************************************)
MaxExports == 2     \* snapshot builds of Commands::Export in one behaviour

\* ORDER BY pushed_at DESC: the repositories, most recently pushed first
PushedOrder == <<"r1", "r2">>
InPushedOrder(S) == SelectSeq(PushedOrder, LAMBDA r : r \in S)

RECURSIVE ByDisplayOrder(_)
\* ORDER BY display_order of get_all_groups
ByDisplayOrder(gs) ==
    IF gs = {} THEN <<>>
    ELSE LET first == CHOOSE g \in gs : \A h \in gs :
                         \/ g.display_order < h.display_order
                         \/ g.display_order = h.display_order /\ g.id <= h.id
         IN <<first>> \o ByDisplayOrder(gs \ {first})

\* the counter with the behind_by test left out
export_unmerged_any_ahead(bs) == Cardinality({b \in bs : b.ahead_by > 0})

\* branches.iter().filter(|b| b.ahead_by > 0 && b.behind_by == 0).count()
export_unmerged_count(bs) ==
    Cardinality({b \in bs : b.ahead_by > 0 /\ b.behind_by = 0})

\* prs.iter().filter(|pr| matches!(pr.state, PRState::Open)).count()
export_open_pr_count(prs) == Cardinality({p \in prs : p.state = "Open"})

\* the json!({...}) object pushed for one repository; stored_branches and
\* stored_prs remember the rows of the tables when they were read
repo_entry(repo_id, bs, prs, raw_bs, raw_prs) ==
    [id |-> repo_id,
     branches |-> {[name |-> b.name, aheadBy |-> b.ahead_by, behindBy |-> b.behind_by,
                    status |-> BranchStatusToString(b.status),
                    commits |-> {c.sha : c \in get_commits_for_branch(b.id)}] : b \in bs},
     pullRequests |-> {[number |-> p.number, state |-> PRStateToString(p.state)] : p \in prs},
     unmergedCount |-> export_unmerged_count(bs),
     prCount |-> export_open_pr_count(prs),
     stored_branches |-> raw_bs,
     stored_prs |-> raw_prs]

SnapIdle == [pc |-> "idle", owner |-> "none", left |-> 0, glist |-> <<>>, gi |-> 0,
             phase |-> "groups", todo |-> <<>>, bs |-> {}, raw_bs |-> {},
             at |-> [pc |-> "idle", fetched |-> <<>>, prev |-> {}, read |-> FALSE],
             acc |-> <<>>, out_groups |-> <<>>, out_ungrouped |-> <<>>]

NoExport == [written |-> FALSE, ver |-> 0, groups |-> <<>>, ungrouped |-> <<>>,
             store |-> [repositories |-> {}, groups |-> {}, repo_groups |-> {}]]

\* let groups = db.get_all_groups()
SnapBegun(owner) ==
    [snap EXCEPT !.pc = "groups", !.owner = owner, !.glist = ByDisplayOrder(get_all_groups),
                 !.gi = 1, !.phase = "groups", !.todo = <<>>, !.acc = <<>>,
                 !.out_groups = <<>>, !.out_ungrouped = <<>>]

\* for group in &groups: db.get_repos_in_group(group.id); after the last group,
\* db.get_ungrouped_repositories()
SnapGroupRepos ==
    /\ snap.pc = "groups"
    /\ IF snap.gi <= Len(snap.glist)
       THEN LET repos == InPushedOrder(get_repos_in_group(snap.glist[snap.gi].id))
            IN snap' = IF Len(repos) = 0
                       THEN [snap EXCEPT !.gi = @ + 1,
                                         !.out_groups = Append(@,
                                             [id |-> snap.glist[snap.gi].id,
                                              name |-> snap.glist[snap.gi].name,
                                              repos |-> <<>>])]
                       ELSE [snap EXCEPT !.pc = "repo_branches", !.todo = repos,
                                         !.acc = <<>>]
       ELSE LET repos == InPushedOrder(get_ungrouped_repositories)
            IN snap' = IF Len(repos) = 0
                       THEN [snap EXCEPT !.pc = "write", !.phase = "ungrouped"]
                       ELSE [snap EXCEPT !.pc = "repo_branches", !.phase = "ungrouped",
                                         !.todo = repos, !.acc = <<>>]
    /\ UNCHANGED <<cl, prio, repositories, branches, pull_requests, commits, groups,
                   repo_groups, nextId, gw, scan, hist, ev>>
    /\ UNCHANGED <<repos_json, srv, db_lock, local_repo_roots, local_repo_status, race, gate>>
    /\ UNCHANGED auxVars

\* db.get_branches_for_repo(&repo.id) for the next repository of the list
SnapReadBranches ==
    /\ snap.pc = "repo_branches"
    /\ snap' = [snap EXCEPT !.pc = "repo_prs",
                            !.bs = get_branches_for_repo(snap.todo[1]),
                            !.raw_bs = {b \in branches : b.repo_id = snap.todo[1]},
                            !.at = [pc |-> scan.pc, fetched |-> scan.fetched,
                                    prev |-> hist.prev.branches, read |-> TRUE]]
    /\ UNCHANGED <<cl, prio, repositories, branches, pull_requests, commits, groups,
                   repo_groups, nextId, gw, scan, hist, ev>>
    /\ UNCHANGED <<repos_json, srv, db_lock, local_repo_roots, local_repo_status, race, gate>>
    /\ UNCHANGED auxVars

\* db.get_pull_requests_for_repo(&repo.id), the commits of each branch, and the
\* entry pushed; then the next repository, the next group or the write
SnapReadPullRequests ==
    /\ snap.pc = "repo_prs"
    /\ LET repo_id == snap.todo[1]
           entry == repo_entry(repo_id, snap.bs, get_pull_requests_for_repo(repo_id),
                               snap.raw_bs,
                               {p \in pull_requests : p.repo_id = repo_id})
           acc == Append(snap.acc, entry)
           rest == Tail(snap.todo)
       IN snap' = IF Len(rest) > 0
                  THEN [snap EXCEPT !.pc = "repo_branches", !.todo = rest, !.acc = acc]
                  ELSE IF snap.phase = "groups"
                  THEN [snap EXCEPT !.pc = "groups", !.todo = rest, !.acc = <<>>,
                                    !.gi = @ + 1,
                                    !.out_groups = Append(@,
                                        [id |-> snap.glist[snap.gi].id,
                                         name |-> snap.glist[snap.gi].name,
                                         repos |-> acc])]
                  ELSE [snap EXCEPT !.pc = "write", !.todo = rest, !.acc = <<>>,
                                    !.out_ungrouped = acc]
    /\ UNCHANGED <<cl, prio, repositories, branches, pull_requests, commits, groups,
                   repo_groups, nextId, gw, scan, hist, ev>>
    /\ UNCHANGED <<repos_json, srv, db_lock, local_repo_roots, local_repo_status, race, gate>>
    /\ UNCHANGED auxVars

\* std::fs::write(&output_path, json_str): the file written from the entries
written_export(ver) ==
    [written |-> TRUE, ver |-> ver, groups |-> snap.out_groups,
     ungrouped |-> snap.out_ungrouped,
     store |-> [repositories |-> repositories, groups |-> groups,
                repo_groups |-> repo_groups]]

\* Commands::Export (main.rs 266-): a process of its own, no mutex
ExportStart ==
    /\ snap.pc = "idle"
    /\ snap.left > 0
    /\ snap' = [SnapBegun("cli") EXCEPT !.left = @ - 1]
    /\ UNCHANGED <<cl, prio, repositories, branches, pull_requests, commits, groups,
                   repo_groups, nextId, gw, scan, hist, ev>>
    /\ UNCHANGED <<repos_json, srv, db_lock, local_repo_roots, local_repo_status, race, gate>>
    /\ UNCHANGED auxVars

ExportWrite ==
    /\ snap.pc = "write"
    /\ snap.owner = "cli"
    /\ repos_json' = written_export(repos_json.ver)
    /\ snap' = [snap EXCEPT !.pc = "idle", !.owner = "none"]
    /\ UNCHANGED <<cl, prio, repositories, branches, pull_requests, commits, groups,
                   repo_groups, nextId, gw, scan, hist, ev>>
    /\ UNCHANGED <<srv, db_lock, local_repo_roots, local_repo_status, race, gate>>
    /\ UNCHANGED auxVars

(***************************************************************************)
(* The grouping endpoints of the server: move_repo, add_repos_to_group,    *)
(* delete_group; each block that holds the mutex is one step               *)
(***************************************************************************)
MaxRequests == 2    \* grouping requests served in one behaviour

Handlers == {"h1", "h2"}
RepoIdLists == {<<"r1">>, <<"r2">>, <<"r1", "r2">>}

\* no move_repo_to_group call made yet
MvIdle == [pc |-> "idle", repo_id |-> "r1", group_id |-> 0, before |-> {}, left |-> 0]

ThreadIdle == [pc |-> "idle", op |-> "none", repo_ids |-> <<>>, group_id |-> 0,
               mut_ver |-> 0, regen_ver |-> 0, success |-> FALSE,
               todo |-> <<>>, found |-> <<>>, status |-> {}]
RespNone == [op |-> "none", status |-> "none", path |-> <<>>, before |-> {}, err |-> <<>>]
SrvIdle == [thr |-> [h \in Handlers |-> ThreadIdle], ver |-> 0, left |-> 0,
            home |-> {}, resp |-> RespNone,
            created |-> [id |-> 0, display_order |-> 0, existing |-> {}]]

\* Database::move_repo_to_group: DELETE the memberships of the repository, then
\* INSERT the new one; the INSERT fails on a foreign key
move_repo_to_group_restoring(repo_id, group_id) ==
    LET removed == {rg \in repo_groups : rg[1] # repo_id}
    IN IF RepoGroupsFkOk(repo_id, group_id) THEN removed \cup {<<repo_id, group_id>>}
       ELSE repo_groups

move_repo_to_group(repo_id, group_id) ==
    LET removed == {rg \in repo_groups : rg[1] # repo_id}
    IN IF RepoGroupsFkOk(repo_id, group_id) THEN removed \cup {<<repo_id, group_id>>}
       ELSE removed

\* Database::remove_repo_from_all_groups
remove_repo_from_all_groups(repo_id) == {rg \in repo_groups : rg[1] # repo_id}

RECURSIVE add_loop(_, _, _)
\* for repo_id in &req.repo_ids { db.add_repo_to_group(repo_id, group_id) }: the
\* memberships after the loop and whether it ran to its end
add_loop(rgs, repo_ids, group_id) ==
    IF Len(repo_ids) = 0 THEN [repo_groups |-> rgs, ok |-> TRUE]
    ELSE IF ~RepoGroupsFkOk(repo_ids[1], group_id)
    THEN [repo_groups |-> rgs, ok |-> FALSE]
    ELSE add_loop(rgs \cup {<<repo_ids[1], group_id>>}, Tail(repo_ids), group_id)

\* where a handler goes after its store mutation without the regeneration
after_mutation_no_regen(ok) == IF ok THEN "respond" ELSE "failed"

\* where a handler goes after its store mutation: regenerate_repos_json on Ok,
\* the error response on Err
after_mutation(ok) == IF ok THEN "regen" ELSE "failed"

Mutated(h, op, ok) ==
    [srv EXCEPT !.thr[h].pc = after_mutation(ok), !.thr[h].op = op,
                !.thr[h].mut_ver = srv.ver + 1, !.thr[h].success = FALSE,
                !.ver = @ + 1]

\* move_repo (server/mod.rs 299-341), lines 303-310
HandleMoveRepo(h, repo_id, target) ==
    /\ srv.thr[h].pc = "idle"
    /\ srv.left > 0
    /\ db_lock = None
    /\ LET ok == is_none(target) \/ RepoGroupsFkOk(repo_id, unwrap(target))
       IN /\ repo_groups' = IF is_none(target) THEN remove_repo_from_all_groups(repo_id)
                            ELSE move_repo_to_group(repo_id, unwrap(target))
          /\ srv' = [Mutated(h, "move_repo", ok) EXCEPT !.left = @ - 1]
          /\ mv' = IF is_none(target) THEN mv
                   ELSE [MvIdle EXCEPT !.pc = IF ok THEN "ok" ELSE "err_insert",
                                       !.repo_id = repo_id,
                                       !.group_id = unwrap(target),
                                       !.before = GroupsOf(repo_id)]
    /\ UNCHANGED <<cl, prio, repositories, branches, pull_requests, commits, groups,
                   nextId, gw, scan, hist, ev>>
    /\ UNCHANGED <<snap, repos_json, db_lock, local_repo_roots, local_repo_status, race, gate>>
    /\ UNCHANGED <<config, cfg, local_hist>>

\* add_repos_to_group (server/mod.rs 343-412), lines 347-372: the target group,
\* created with the next display_order when none is given
HandleAddReposToGroup(h, repo_ids, target) ==
    /\ srv.thr[h].pc = "idle"
    /\ srv.left > 0
    /\ IF is_none(target)
       THEN /\ db_lock = None
            /\ nextId.groups <= MaxGroups
            /\ \E read_ok \in BOOLEAN :
               LET order == max_order(unwrap_or_default(read_ok, get_all_groups)) + 1
                   id == FreshId("groups")
               IN /\ groups' = groups \cup {[id |-> id, name |-> "work",
                                             display_order |-> order]}
                  /\ nextId' = [nextId EXCEPT !.groups = @ + 1]
                  /\ srv' = [srv EXCEPT !.thr[h].pc = "add",
                                        !.thr[h].op = "add_repos_to_group",
                                        !.thr[h].repo_ids = repo_ids,
                                        !.thr[h].group_id = id,
                                        !.thr[h].success = FALSE,
                                        !.created = [id |-> id, display_order |-> order,
                                                     existing |-> groups],
                                        !.ver = @ + 1, !.left = @ - 1]
       ELSE /\ srv' = [srv EXCEPT !.thr[h].pc = "add",
                                  !.thr[h].op = "add_repos_to_group",
                                  !.thr[h].repo_ids = repo_ids,
                                  !.thr[h].group_id = unwrap(target),
                                  !.thr[h].success = FALSE,
                                  !.left = @ - 1]
            /\ UNCHANGED <<groups, nextId>>
    /\ UNCHANGED <<cl, prio, repositories, branches, pull_requests, commits,
                   repo_groups, gw, scan, hist, ev>>
    /\ UNCHANGED <<snap, repos_json, db_lock, local_repo_roots, local_repo_status, race, gate>>
    /\ UNCHANGED auxVars

\* add_repos_to_group, lines 375-390: the add loop under one lock hold
HandleAddLoop(h) ==
    /\ srv.thr[h].pc = "add"
    /\ db_lock = None
    /\ LET res == add_loop(repo_groups, srv.thr[h].repo_ids, srv.thr[h].group_id)
       IN /\ repo_groups' = res.repo_groups
          /\ srv' = Mutated(h, "add_repos_to_group", res.ok)
    /\ UNCHANGED <<cl, prio, repositories, branches, pull_requests, commits, groups,
                   nextId, gw, scan, hist, ev>>
    /\ UNCHANGED <<snap, repos_json, db_lock, local_repo_roots, local_repo_status, race, gate>>
    /\ UNCHANGED auxVars

\* delete_group (server/mod.rs 414-450), lines 418-432
HandleDeleteGroup(h, group_id) ==
    /\ srv.thr[h].pc = "idle"
    /\ srv.left > 0
    /\ db_lock = None
    /\ groups' = {x \in groups : x.id # group_id}
    /\ repo_groups' = CascadeRepoGroups(group_id)
    /\ srv' = [Mutated(h, "delete_group", TRUE) EXCEPT !.left = @ - 1]
    /\ UNCHANGED <<cl, prio, repositories, branches, pull_requests, commits,
                   nextId, gw, scan, hist, ev>>
    /\ UNCHANGED <<snap, repos_json, db_lock, local_repo_roots, local_repo_status, race, gate>>
    /\ UNCHANGED auxVars

\* regenerate_repos_json, line 164: the mutex taken, held to the end of the function
RegenerateBegin(h) ==
    /\ srv.thr[h].pc = "regen"
    /\ db_lock = None
    /\ snap.pc = "idle"
    /\ db_lock' = Some(h)
    /\ snap' = SnapBegun(h)
    /\ srv' = [srv EXCEPT !.thr[h].pc = "building"]
    /\ UNCHANGED <<cl, prio, repositories, branches, pull_requests, commits, groups,
                   repo_groups, nextId, gw, scan, hist, ev>>
    /\ UNCHANGED <<repos_json, local_repo_roots, local_repo_status, race, gate>>
    /\ UNCHANGED auxVars

\* regenerate_repos_json, lines 291-296: the file written (or not), the guard dropped
RegenerateWrite(h) ==
    /\ snap.pc = "write"
    /\ snap.owner = h
    /\ \E ok \in BOOLEAN :
        /\ repos_json' = IF ok THEN written_export(srv.ver) ELSE repos_json
        /\ srv' = [srv EXCEPT !.thr[h].pc = IF ok THEN "respond" ELSE "failed",
                              !.thr[h].regen_ver = IF ok THEN srv.ver ELSE @]
    /\ db_lock' = None
    /\ snap' = [snap EXCEPT !.pc = "idle", !.owner = "none"]
    /\ UNCHANGED <<cl, prio, repositories, branches, pull_requests, commits, groups,
                   repo_groups, nextId, gw, scan, hist, ev>>
    /\ UNCHANGED <<local_repo_roots, local_repo_status, race, gate>>
    /\ UNCHANGED auxVars

\* the response: success only on the path through the regeneration
HandleRespond(h) ==
    /\ srv.thr[h].pc \in {"respond", "failed"}
    /\ srv' = [srv EXCEPT !.thr[h].pc = "done",
                          !.thr[h].success = (srv.thr[h].pc = "respond")]
    /\ UNCHANGED <<cl, prio, repositories, branches, pull_requests, commits, groups,
                   repo_groups, nextId, gw, scan, hist, ev>>
    /\ UNCHANGED <<snap, repos_json, db_lock, local_repo_roots, local_repo_status, race, gate>>
    /\ UNCHANGED auxVars

\* the handler task ends; the next request gets a task of its own
HandleDone(h) ==
    /\ srv.thr[h].pc = "done"
    /\ srv.left > 0
    /\ srv' = [srv EXCEPT !.thr[h] = ThreadIdle]
    /\ UNCHANGED <<cl, prio, repositories, branches, pull_requests, commits, groups,
                   repo_groups, nextId, gw, scan, hist, ev>>
    /\ UNCHANGED <<snap, repos_json, db_lock, local_repo_roots, local_repo_status, race, gate>>
    /\ UNCHANGED auxVars

(***************************************************************************)
(* Handlers that call out of the process: create_all_prs runs gh,          *)
(* scan_local_repos walks the file system and runs git                     *)
(***************************************************************************)
BranchNameOrder == <<"feat", "main">>
CheckoutLists == {<<>>, <<"r1">>, <<"r1", "r2">>}
ExternalCalls == {"create_pull_request", "scan_for_git_repos", "get_repo_status"}

\* the handler's MutexGuard kept alive where the code has drop(db)
drop_db_forgotten(guard) == guard

\* drop(db): the guard given up, the mutex free again
drop_db(guard) == None

\* branches.into_iter().filter(|b| b.ahead_by > 0), the names in the ORDER BY name
\* of get_branches_for_repo
branches_to_pr(repo_id) ==
    SelectSeq(BranchNameOrder,
              LAMBDA n : \E b \in get_branches_for_repo(repo_id) : b.name = n /\ b.ahead_by > 0)

\* get_all_local_repo_roots: ORDER BY created_at DESC, the newest row first
RECURSIVE newest_first(_)
newest_first(rows) ==
    IF rows = {} THEN <<>>
    ELSE LET r == CHOOSE x \in rows : \A y \in rows : y.id <= x.id
         IN <<r>> \o newest_first(rows \ {r})

\* roots.iter().filter(|r| r.enabled), the paths in the order of get_all_local_repo_roots
enabled_roots ==
    LET rows == newest_first({r \in local_repo_roots : r.enabled})
    IN [i \in 1..Len(rows) |-> rows[i].path]

GitBranches == {None, Some("main")}

\* what git answers in one checkout: the current branch, the lines of
\* `git status --porcelain`, and the two counts of `git rev-list --left-right`
GitStates == [current_branch : GitBranches, uncommitted_files : Counts,
              ahead : Counts, behind : Counts]

\* get_repo_status with the commits of the remote counted as local changes
get_repo_status_behind_dirty(repo_id, git) ==
    LET on_branch == git.current_branch # None
        unpushed == IF on_branch THEN git.ahead ELSE 0
        behind == IF on_branch THEN git.behind ELSE 0
    IN [repo_id |-> repo_id, current_branch |-> git.current_branch,
        uncommitted_files |-> git.uncommitted_files,
        unpushed_commits |-> unpushed, behind_commits |-> behind,
        is_dirty |-> (git.uncommitted_files > 0 \/ unpushed > 0 \/ behind > 0)]

\* local_git::get_repo_status: get_ahead_behind is asked only on a branch,
\* (0, 0) otherwise; is_dirty = uncommitted_files > 0 || unpushed_commits > 0
get_repo_status(repo_id, git) ==
    LET on_branch == git.current_branch # None
        unpushed == IF on_branch THEN git.ahead ELSE 0
        behind == IF on_branch THEN git.behind ELSE 0
    IN [repo_id |-> repo_id, current_branch |-> git.current_branch,
        uncommitted_files |-> git.uncommitted_files,
        unpushed_commits |-> unpushed, behind_commits |-> behind,
        is_dirty |-> (git.uncommitted_files > 0 \/ unpushed > 0)]

\* the table with the statement's row only
save_local_repo_status_only(rows, status) == {status}

\* Database::save_local_repo_status: INSERT OR REPLACE keyed by repo_id
save_local_repo_status(rows, status) ==
    {r \in rows : r.repo_id # status.repo_id} \cup {status}

\* where the loops of scan_local_repos and create_all_prs go after one item
NextItem(found, todo) ==
    IF found # <<>> THEN "status" ELSE IF todo # <<>> THEN "loop" ELSE "respond"

\* create_all_prs, line 651: the mutex taken
CreateAllPrs(h, repo_id) ==
    /\ srv.thr[h].pc = "idle"
    /\ srv.left > 0
    /\ db_lock = None
    /\ db_lock' = Some(h)
    /\ srv' = [srv EXCEPT !.left = @ - 1,
                          !.thr[h] = [ThreadIdle EXCEPT !.pc = "locked", !.op = "create_all_prs",
                                                        !.repo_ids = <<repo_id>>]]
    /\ UNCHANGED <<cl, prio, repositories, branches, pull_requests, commits, groups,
                   repo_groups, nextId, gw, scan, hist, ev>>
    /\ UNCHANGED <<snap, repos_json, local_repo_roots, local_repo_status, race, gate>>
    /\ UNCHANGED auxVars

\* scan_local_repos, line 814: the mutex taken
ScanLocalRepos(h) ==
    /\ srv.thr[h].pc = "idle"
    /\ srv.left > 0
    /\ db_lock = None
    /\ db_lock' = Some(h)
    /\ srv' = [srv EXCEPT !.left = @ - 1,
                          !.thr[h] = [ThreadIdle EXCEPT !.pc = "locked", !.op = "scan_local_repos"]]
    /\ UNCHANGED <<cl, prio, repositories, branches, pull_requests, commits, groups,
                   repo_groups, nextId, gw, scan, hist, ev>>
    /\ UNCHANGED <<snap, repos_json, local_repo_roots, local_repo_status, race, gate>>
    /\ UNCHANGED auxVars

\* the read under the mutex (lines 654-667, 817-829): an Err returns and the guard
\* goes out of scope; otherwise drop(db) (lines 670, 831) and the list to work on
ReadAndDrop(h) ==
    /\ srv.thr[h].pc = "locked"
    /\ \E ok \in BOOLEAN :
        LET todo == IF srv.thr[h].op = "create_all_prs"
                    THEN branches_to_pr(srv.thr[h].repo_ids[1])
                    ELSE enabled_roots
        IN IF ok
           THEN /\ db_lock' = drop_db(db_lock)
                /\ srv' = [srv EXCEPT !.thr[h].todo = todo,
                                      !.thr[h].pc = NextItem(<<>>, todo)]
           ELSE /\ db_lock' = None
                /\ srv' = [srv EXCEPT !.thr[h].pc = "failed"]
    /\ UNCHANGED <<cl, prio, repositories, branches, pull_requests, commits, groups,
                   repo_groups, nextId, gw, scan, hist, ev>>
    /\ UNCHANGED <<snap, repos_json, local_repo_roots, local_repo_status, race, gate>>
    /\ UNCHANGED auxVars

\* the call out of the process starts: github::create_pull_request (line 690),
\* local_git::scan_for_git_repos (line 840) or local_git::get_repo_status (line 846)
ExternalCall(h) ==
    /\ srv.thr[h].pc \in {"loop", "status"}
    /\ srv' = [srv EXCEPT !.thr[h].pc =
                  IF srv.thr[h].pc = "status" THEN "get_repo_status"
                  ELSE IF srv.thr[h].op = "create_all_prs" THEN "create_pull_request"
                  ELSE "scan_for_git_repos"]
    /\ UNCHANGED <<cl, prio, repositories, branches, pull_requests, commits, groups,
                   repo_groups, nextId, gw, scan, hist, ev>>
    /\ UNCHANGED <<snap, repos_json, db_lock, local_repo_roots, local_repo_status, race, gate>>
    /\ UNCHANGED auxVars

\* work done in a checkout between two scans: git answers differently
GitChange(repo_id, git) ==
    /\ local_hist.changes_left > 0
    /\ git # local_hist.git[repo_id]
    /\ local_hist' = [local_hist EXCEPT !.git[repo_id] = git, !.changes_left = @ - 1]
    /\ UNCHANGED <<cl, prio, repositories, branches, pull_requests, commits, groups,
                   repo_groups, nextId, gw, scan, hist, ev>>
    /\ UNCHANGED <<snap, repos_json, srv, db_lock, local_repo_roots, local_repo_status,
                   race, gate, config, cfg, mv>>

\* the call returns: a PR result pushed, the checkouts found under a root (none
\* on Err), or the status of one checkout (Err: the next checkout)
ExternalReturn(h) ==
    LET t == srv.thr[h]
        stored == {r.repo_id : r \in local_repo_status}
    IN /\ t.pc \in ExternalCalls
       /\ \/ /\ t.pc = "create_pull_request"
             /\ srv' = [srv EXCEPT !.thr[h].todo = Tail(t.todo),
                                   !.thr[h].pc = NextItem(<<>>, Tail(t.todo))]
             /\ UNCHANGED local_hist
          \/ /\ t.pc = "scan_for_git_repos"
             /\ \E found \in CheckoutLists :
                  /\ srv' = [srv EXCEPT !.thr[h].todo = Tail(t.todo),
                                        !.thr[h].found = found,
                                        !.thr[h].pc = NextItem(found, Tail(t.todo))]
                  /\ local_hist' =
                        [local_hist EXCEPT !.missed =
                            @ \cup (stored \ {found[i] : i \in 1..Len(found)})]
          \/ /\ t.pc = "get_repo_status"
             /\ \/ srv' = [srv EXCEPT !.thr[h].status =
                                      Some(get_repo_status(Head(t.found),
                                                           local_hist.git[Head(t.found)])),
                                   !.thr[h].pc = "save"]
                \/ srv' = [srv EXCEPT !.thr[h].found = Tail(t.found),
                                      !.thr[h].pc = NextItem(Tail(t.found), t.todo)]
             /\ UNCHANGED local_hist
       /\ UNCHANGED <<cl, prio, repositories, branches, pull_requests, commits, groups,
                      repo_groups, nextId, gw, scan, hist, ev>>
       /\ UNCHANGED <<snap, repos_json, db_lock, local_repo_roots, local_repo_status, race, gate>>
       /\ UNCHANGED <<config, cfg, mv>>

\* scan_local_repos, line 849: the mutex taken again inside the Ok arm
SaveStatusLock(h) ==
    /\ srv.thr[h].pc = "save"
    /\ db_lock = None
    /\ db_lock' = Some(h)
    /\ srv' = [srv EXCEPT !.thr[h].pc = "saving"]
    /\ UNCHANGED <<cl, prio, repositories, branches, pull_requests, commits, groups,
                   repo_groups, nextId, gw, scan, hist, ev>>
    /\ UNCHANGED <<snap, repos_json, local_repo_roots, local_repo_status, race, gate>>
    /\ UNCHANGED auxVars

\* scan_local_repos, lines 850-858: the status saved (or not), the guard out of
\* scope at the end of the arm
SaveStatus(h) ==
    LET t == srv.thr[h]
        status == CHOOSE x \in t.status : TRUE
    IN /\ t.pc = "saving"
       /\ \E ok \in BOOLEAN :
            /\ local_repo_status' =
                  IF ok THEN save_local_repo_status(local_repo_status, status)
                  ELSE local_repo_status
            /\ local_hist' =
                  IF ok THEN [local_hist EXCEPT !.last[status.repo_id] = Some(status)]
                  ELSE local_hist
       /\ db_lock' = None
       /\ srv' = [srv EXCEPT !.thr[h].status = None,
                             !.thr[h].found = Tail(t.found),
                             !.thr[h].pc = NextItem(Tail(t.found), t.todo)]
       /\ UNCHANGED <<cl, prio, repositories, branches, pull_requests, commits, groups,
                      repo_groups, nextId, gw, scan, hist, ev>>
       /\ UNCHANGED <<snap, repos_json, local_repo_roots, race, gate>>
       /\ UNCHANGED <<config, cfg, mv>>

(***************************************************************************)
(* Two Commands::Scan processes on one database file: every store call is  *)
(* a statement committed on its own, so the calls of the two interleave    *)
(***************************************************************************)
Scanners == {"A", "B"}
RaceUpBranch == [name : {"dev", "feat"}, ahead_by : {1, 2}, behind_by : {0}]
RaceUpLists ==
    {<<x, UpMain>> : x \in RaceUpBranch}
    \cup {<<x, y, UpMain>> : x \in {b \in RaceUpBranch : b.name = "dev"},
                             y \in {b \in RaceUpBranch : b.name = "feat"}}

\* a push between the two fetches: the second scan may be answered differently
RacePush ==
    /\ hist.changes_left > 0
    /\ \E p \in Scanners : race[p].pc = "fetch_branches"
    /\ \E up \in RaceUpLists :
        /\ up # gw["r1"].branches
        /\ gw' = [gw EXCEPT !["r1"].branches = up]
    /\ hist' = [hist EXCEPT !.changes_left = @ - 1]
    /\ UNCHANGED <<cl, prio, repositories, branches, pull_requests, commits, groups,
                   repo_groups, nextId, scan, ev>>
    /\ UNCHANGED extVars

\* main.rs 110: github::fetch_branches
RaceFetchBranches(p) ==
    /\ race[p].pc = "fetch_branches"
    /\ race' = [race EXCEPT ![p].fetched = fetch_branches("r1"),
                            ![p].pc = "clear_branches"]
    /\ UNCHANGED <<cl, prio, repositories, branches, pull_requests, commits, groups,
                   repo_groups, nextId, gw, scan, hist, ev>>
    /\ UNCHANGED <<snap, repos_json, srv, db_lock, local_repo_roots, local_repo_status, gate>>
    /\ UNCHANGED auxVars

\* main.rs 115: db.clear_branches_for_repo
RaceClearBranches(p) ==
    /\ race[p].pc = "clear_branches"
    /\ branches' = clear_branches_for_repo(branches, "r1")
    /\ commits' = CommitsAfterBranchDelete(commits, branches \ branches')
    /\ race' = [race EXCEPT ![p].pc = "save_branch", ![p].j = 1]
    /\ UNCHANGED <<cl, prio, repositories, pull_requests, groups,
                   repo_groups, nextId, gw, scan, hist, ev>>
    /\ UNCHANGED <<snap, repos_json, srv, db_lock, local_repo_roots, local_repo_status, gate>>
    /\ UNCHANGED auxVars

\* main.rs 121: db.save_branch for the next fetched branch
RaceSaveBranch(p) ==
    /\ race[p].pc = "save_branch"
    /\ LET branch == race[p].fetched[race[p].j]
       IN /\ branches' = save_branch(branches, branch, FreshId("branches"))
          /\ commits' = CommitsAfterBranchDelete(commits, BranchConflicts(branches, branch))
    /\ nextId' = [nextId EXCEPT !.branches = @ + 1]
    /\ race' = IF race[p].j = Len(race[p].fetched)
               THEN [race EXCEPT ![p].pc = "done"]
               ELSE [race EXCEPT ![p].j = @ + 1]
    /\ UNCHANGED <<cl, prio, repositories, pull_requests, groups,
                   repo_groups, gw, scan, hist, ev>>
    /\ UNCHANGED <<snap, repos_json, srv, db_lock, local_repo_roots, local_repo_status, gate>>
    /\ UNCHANGED auxVars

(***************************************************************************)
(* The local root endpoints: add_local_repo_root, remove_local_repo_root;  *)
(* each holds the mutex from its first statement to its response, so each  *)
(* is one step.  Paths and messages are sequences of pieces of text        *)
(***************************************************************************)
MaxRootCalls == 3   \* requests to the local root endpoints in one behaviour

HomeDir == <<"/home/u">>
RequestPaths == {<<"~", "/src">>, <<"/home/u", "/src">>, <<"/work">>}
RootIds == 1..MaxRootCalls
UniqueViolation == <<"UNIQUE constraint failed", ": local_repo_roots.path">>
DiskError == <<"disk I/O error">>

\* Error::Database(#[from] rusqlite::Error), #[error("Database error: {0}")]
to_string(e) == <<"Database error: ">> \o e

\* str::contains for a needle that is one piece of the message
contains(msg, needle) == \E i \in 1..Len(msg) : msg[i] = needle

\* if req.path.starts_with('~') { if let Ok(home) = env::var("HOME")
\* { req.path.replacen("~", &home, 1) } else { req.path } } else { req.path }
expanded_path(path, home) ==
    IF Len(path) > 0 /\ path[1] = "~"
    THEN IF home # None THEN unwrap(home) \o Tail(path) ELSE path
    ELSE path

\* the rowid SQLite gives the inserted row: one more than the largest in the table
last_insert_rowid(rows) ==
    IF rows = {} THEN 1
    ELSE 1 + (CHOOSE m \in {r.id : r \in rows} : \A r \in rows : r.id <= m)

\* Database::add_local_repo_root: a plain INSERT; the table is UNIQUE on path
add_local_repo_root(rows, path, io_ok) ==
    IF ~io_ok THEN [rows |-> rows, err |-> DiskError]
    ELSE IF \E r \in rows : r.path = path THEN [rows |-> rows, err |-> UniqueViolation]
    ELSE [rows |-> rows \cup {[id |-> last_insert_rowid(rows), path |-> path,
                               enabled |-> TRUE]},
          err |-> <<>>]

\* the Err arm of the handler without the test for the UNIQUE message
status_for_error_generic(error_msg) == "INTERNAL_SERVER_ERROR"

\* the Err arm of the handler: CONFLICT for a UNIQUE violation, 500 otherwise
status_for_error(error_msg) ==
    IF contains(error_msg, "UNIQUE constraint failed") THEN "CONFLICT"
    ELSE "INTERNAL_SERVER_ERROR"

\* POST /api/local-repos/roots
AddLocalRepoRoot(path) ==
    /\ srv.left > 0
    /\ db_lock = None
    /\ \E io_ok \in BOOLEAN :
        LET expanded == expanded_path(path, srv.home)
            res == add_local_repo_root(local_repo_roots, expanded, io_ok)
        IN /\ local_repo_roots' = res.rows
           /\ srv' = [srv EXCEPT !.left = @ - 1,
                                 !.resp = [op |-> "add_local_repo_root",
                                           status |-> IF res.err = <<>> THEN "OK"
                                                      ELSE status_for_error(to_string(res.err)),
                                           path |-> expanded,
                                           before |-> local_repo_roots,
                                           err |-> res.err]]
    /\ UNCHANGED <<cl, prio, repositories, branches, pull_requests, commits, groups,
                   repo_groups, nextId, gw, scan, hist, ev>>
    /\ UNCHANGED <<snap, repos_json, db_lock, local_repo_status, race, gate>>
    /\ UNCHANGED auxVars

\* DELETE /api/local-repos/roots/:id
RemoveLocalRepoRoot(id) ==
    /\ srv.left > 0
    /\ db_lock = None
    /\ \E io_ok \in BOOLEAN :
        /\ local_repo_roots' = IF io_ok THEN {r \in local_repo_roots : r.id # id}
                               ELSE local_repo_roots
        /\ srv' = [srv EXCEPT !.left = @ - 1,
                              !.resp = [op |-> "remove_local_repo_root",
                                        status |-> IF io_ok THEN "OK"
                                                   ELSE "INTERNAL_SERVER_ERROR",
                                        path |-> <<>>,
                                        before |-> local_repo_roots,
                                        err |-> IF io_ok THEN <<>> ELSE DiskError]]
    /\ UNCHANGED <<cl, prio, repositories, branches, pull_requests, commits, groups,
                   repo_groups, nextId, gw, scan, hist, ev>>
    /\ UNCHANGED <<snap, repos_json, db_lock, local_repo_status, race, gate>>
    /\ UNCHANGED auxVars

(***************************************************************************)
(* The gh gateway's checks of its arguments (github/commands.rs): an owner *)
(* or a repository id is a sequence of characters                          *)
(***************************************************************************)
MaxArgLen == 3      \* length of the short arguments tried
OwnerMaxLen == 39

GatewayOps == {"list_repos", "fetch_branches", "fetch_pull_requests", "fetch_commits",
               "create_pull_request"}
GateChars == {"a", "-", "/", " "}
GateArgs == SeqsUpTo(GateChars, MaxArgLen)
            \cup {[n \in 1..k |-> "a"] : k \in {OwnerMaxLen, OwnerMaxLen + 1}}

\* char::is_alphanumeric on the characters tried
is_alphanumeric(c) == c = "a"

\* validate_owner: not empty, alphanumeric or hyphens, at most 39 long
validate_owner(owner) ==
    /\ Len(owner) # 0
    /\ \A i \in 1..Len(owner) : is_alphanumeric(owner[i]) \/ owner[i] = "-"
    /\ Len(owner) <= OwnerMaxLen

\* repo_id.split('/').collect::<Vec<_>>().len()
split_parts(repo_id) == 1 + Cardinality({i \in 1..Len(repo_id) : repo_id[i] = "/"})

\* what each gateway function checks before Command::new("gh"): TRUE is Ok
validated(op, arg) ==
    CASE op = "list_repos" -> validate_owner(arg)
      [] op = "fetch_branches" -> split_parts(arg) = 2
      [] op = "create_pull_request" -> \E i \in 1..Len(arg) : arg[i] = "/"
      [] op = "fetch_commits" -> TRUE
      [] op = "fetch_pull_requests" -> TRUE

\* one gateway function called: an Err of the check returns before gh is run
GatewayCall ==
    /\ ~gate.done
    /\ gate.op \in GatewayOps
    /\ gate' = [gate EXCEPT !.done = TRUE,
                            !.rejected = ~validated(gate.op, gate.arg),
                            !.gh_run = validated(gate.op, gate.arg)]
    /\ UNCHANGED <<cl, prio, repositories, branches, pull_requests, commits, groups,
                   repo_groups, nextId, gw, scan, hist, ev>>
    /\ UNCHANGED <<snap, repos_json, srv, db_lock, local_repo_roots, local_repo_status, race>>
    /\ UNCHANGED auxVars

(***************************************************************************)
(* The config table: Database::get_config and Database::set_config         *)
(***************************************************************************)
MaxConfigCalls == 3     \* set_config calls in one behaviour

\* rows that INSERT OR REPLACE removes: the table is keyed by key
ConfigConflicts(rows, key) == {r \in rows : r[1] = key}

\* set_config as a plain INSERT: refused when the key is there
set_config_insert_only(rows, key, value) ==
    IF ConfigConflicts(rows, key) # {} THEN rows ELSE rows \cup {<<key, value>>}

\* Database::set_config: INSERT OR REPLACE INTO config (key, value)
set_config(rows, key, value) ==
    (rows \ ConfigConflicts(rows, key)) \cup {<<key, value>>}

\* Database::get_config: the value of the first row with the key, or None
get_config(rows, key) ==
    LET found == {r \in rows : r[1] = key}
    IN IF found = {} THEN None ELSE Some((CHOOSE r \in found : TRUE)[2])

\* one set_config call; an Err of the statement leaves the table as it was
SetConfig(key, value) ==
    /\ cfg.left > 0
    /\ \E ok \in BOOLEAN :
        /\ config' = IF ok THEN set_config(config, key, value) ELSE config
        /\ cfg' = IF ok
                  THEN [cfg EXCEPT !.left = @ - 1, !.last[key] = Some(value),
                                   !.prev[key] = cfg.last[key]]
                  ELSE [cfg EXCEPT !.left = @ - 1]
    /\ UNCHANGED <<cl, prio, repositories, branches, pull_requests, commits, groups,
                   repo_groups, nextId, gw, scan, hist, ev>>
    /\ UNCHANGED <<snap, repos_json, srv, db_lock, local_repo_roots, local_repo_status,
                   race, gate, mv, local_hist>>

\* one get_config call, with what the calls before it make the answer
GetConfig(key) ==
    /\ cfg' = [cfg EXCEPT !.got = [key |-> key, value |-> get_config(config, key),
                                   expected |-> cfg.last[key]]]
    /\ UNCHANGED <<cl, prio, repositories, branches, pull_requests, commits, groups,
                   repo_groups, nextId, gw, scan, hist, ev>>
    /\ UNCHANGED <<snap, repos_json, srv, db_lock, local_repo_roots, local_repo_status,
                   race, gate, config, mv, local_hist>>

(***************************************************************************)
(* Database::move_repo_to_group statement by statement: the DELETE and the *)
(* INSERT are committed one after the other, and the process may die       *)
(* between them                                                            *)
(***************************************************************************)
MaxMoves == 2       \* move_repo_to_group calls in one behaviour

\* the first statement left out
delete_nothing(rgs, repo_id) == rgs

\* DELETE FROM repo_groups WHERE repo_id = ?1
delete_memberships(rgs, repo_id) == {rg \in rgs : rg[1] # repo_id}

\* the call made
MoveBegin(repo_id, group_id) ==
    /\ mv.pc = "idle"
    /\ mv.left > 0
    /\ mv' = [pc |-> "delete", repo_id |-> repo_id, group_id |-> group_id,
              before |-> GroupsOf(repo_id), left |-> mv.left - 1]
    /\ UNCHANGED <<cl, prio, repositories, branches, pull_requests, commits, groups,
                   repo_groups, nextId, gw, scan, hist, ev>>
    /\ UNCHANGED <<snap, repos_json, srv, db_lock, local_repo_roots, local_repo_status,
                   race, gate, config, cfg, local_hist>>

\* storage/mod.rs 381-384: the DELETE; its Err is returned by `?`
MoveDelete ==
    /\ mv.pc = "delete"
    /\ \E ok \in BOOLEAN :
        /\ repo_groups' = IF ok THEN delete_memberships(repo_groups, mv.repo_id)
                          ELSE repo_groups
        /\ mv' = [mv EXCEPT !.pc = IF ok THEN "between" ELSE "err_delete"]
    /\ UNCHANGED <<cl, prio, repositories, branches, pull_requests, commits, groups,
                   nextId, gw, scan, hist, ev>>
    /\ UNCHANGED <<snap, repos_json, srv, db_lock, local_repo_roots, local_repo_status,
                   race, gate, config, cfg, local_hist>>

\* the process dies after the DELETE was committed
MoveCrash ==
    /\ mv.pc = "between"
    /\ mv' = [mv EXCEPT !.pc = "crashed"]
    /\ UNCHANGED <<cl, prio, repositories, branches, pull_requests, commits, groups,
                   repo_groups, nextId, gw, scan, hist, ev>>
    /\ UNCHANGED <<snap, repos_json, srv, db_lock, local_repo_roots, local_repo_status,
                   race, gate, config, cfg, local_hist>>

\* storage/mod.rs 387-391: the plain INSERT; it fails on a foreign key or on I/O
MoveInsert ==
    /\ mv.pc = "between"
    /\ \E io_ok \in BOOLEAN :
        LET ok == io_ok /\ RepoGroupsFkOk(mv.repo_id, mv.group_id)
        IN /\ repo_groups' = IF ok THEN repo_groups \cup {<<mv.repo_id, mv.group_id>>}
                             ELSE repo_groups
           /\ mv' = [mv EXCEPT !.pc = IF ok THEN "ok" ELSE "err_insert"]
    /\ UNCHANGED <<cl, prio, repositories, branches, pull_requests, commits, groups,
                   nextId, gw, scan, hist, ev>>
    /\ UNCHANGED <<snap, repos_json, srv, db_lock, local_repo_roots, local_repo_status,
                   race, gate, config, cfg, local_hist>>

\* the call has returned (or the process was started again): the next call may come
MoveReturn ==
    /\ mv.pc \in {"ok", "err_delete", "err_insert", "crashed"}
    /\ mv' = [mv EXCEPT !.pc = "idle"]
    /\ UNCHANGED <<cl, prio, repositories, branches, pull_requests, commits, groups,
                   repo_groups, nextId, gw, scan, hist, ev>>
    /\ UNCHANGED <<snap, repos_json, srv, db_lock, local_repo_roots, local_repo_status,
                   race, gate, config, cfg, local_hist>>

RaceIdle == [A |-> [pc |-> "done", fetched |-> <<>>, j |-> 0],
             B |-> [pc |-> "done", fetched |-> <<>>, j |-> 0]]

GateIdle == [done |-> FALSE, op |-> "none", arg |-> <<>>, rejected |-> FALSE,
             gh_run |-> FALSE]

(***************************************************************************)
(* Specifications                                                          *)
(***************************************************************************)
NoRows == [branches |-> {}, pull_requests |-> {}, commits |-> {}]
HistInit == [order |-> ScanOrderOne, asked |-> {}, scans_left |-> 0, fail_left |-> 0, changes_left |-> 0, runs |-> 0,
             replaces |-> 0, same_gw |-> TRUE, twice |-> FALSE, clean_prev |-> TRUE,
             clean_cur |-> TRUE, prev |-> NoRows, before |-> NoRows]

\* Database::open_or_create on a new file: every table empty
StoreInit ==
    /\ repositories = {}
    /\ branches = {}
    /\ pull_requests = {}
    /\ commits = {}
    /\ groups = {}
    /\ repo_groups = {}
    /\ nextId = [groups |-> 1, branches |-> 1, pull_requests |-> 1, commits |-> 1]

GwQuiet == [r \in {"r1"} |->
              [branches |-> <<UpMain>>, prs |-> <<>>, commits |-> <<1>>, fail |-> "none"]]

ConfigKeys == {"k1", "k2"}
ConfigValues == {"v1", "v2"}
CfgIdle == [last |-> [k \in ConfigKeys |-> {}], prev |-> [k \in ConfigKeys |-> {}],
            got |-> [key |-> "none", value |-> {}, expected |-> {}], left |-> 0]
GitClean == [current_branch |-> {"main"}, uncommitted_files |-> 0, ahead |-> 0, behind |-> 0]
LocalHistIdle == [git |-> [r \in Repos |-> GitClean], changes_left |-> 0,
                  last |-> [r \in Repos |-> {}], missed |-> {}]

\* the config table empty, no move under way, no local scan yet
AuxIdle ==
    /\ config = {} /\ cfg = CfgIdle /\ mv = MvIdle /\ local_hist = LocalHistIdle

\* the server, the export, the race and the gateway harness at rest
ExtIdle ==
    /\ snap = SnapIdle /\ repos_json = NoExport /\ srv = SrvIdle /\ db_lock = None
    /\ local_repo_roots = {} /\ local_repo_status = {} /\ race = RaceIdle /\ gate = GateIdle
    /\ AuxIdle

\* the classifier on its own
InitClassify ==
    /\ ClassifyInit
    /\ prio = PrioIdle
    /\ StoreInit
    /\ gw = GwQuiet /\ scan = ScanIdle /\ hist = HistInit /\ ev = EvNone
    /\ ExtIdle
NextClassify == Classify
SpecClassify == InitClassify /\ [][NextClassify]_vars

\* the scorer on its own
InitPriority ==
    /\ PriorityInit
    /\ cl = ClIdle
    /\ StoreInit
    /\ gw = GwQuiet /\ scan = ScanIdle /\ hist = HistInit /\ ev = EvNone
    /\ ExtIdle
NextPriority == Score
SpecPriority == InitPriority /\ [][NextPriority]_vars

\* the grouping calls on the store
InitGroups ==
    /\ cl = ClIdle /\ prio = PrioIdle
    /\ StoreInit
    /\ gw = GwQuiet /\ scan = ScanIdle /\ hist = HistInit /\ ev = EvNone
    /\ ExtIdle
NextGroups ==
    \/ \E r \in Repos : SaveRepository(r)
    \/ \E n \in GroupNames : CreateGroup(n)
    \/ \E r \in Repos, g \in GroupIds : AddRepoToGroup(r, g)
    \/ \E r \in Repos, g \in GroupIds : MoveRepoToGroup(r, g)
    \/ \E r \in Repos : RemoveRepoFromAllGroups(r)
    \/ \E g \in GroupIds : DeleteGroup(g)
SpecGroups == InitGroups /\ [][NextGroups]_vars

\* scans of a changing upstream
InitScan ==
    /\ cl = ClIdle /\ prio = PrioIdle
    /\ StoreInit
    /\ gw \in [{"r1"} -> Fixtures]
    /\ scan = ScanIdle
    /\ hist = [HistInit EXCEPT !.scans_left = MaxScans, !.fail_left = MaxStoreFailures,
                               !.changes_left = MaxUpstreamChanges]
    /\ ev = EvNone
    /\ ExtIdle
NextScan ==
    \/ \E r \in ScanRepos, f \in Fixtures : UpstreamChange(r, f)
    \/ ScanStart
    \/ ScanSaveRepository
    \/ ScanFetchBranches
    \/ ScanClearBranches
    \/ ScanSaveBranch
    \/ ScanFetchCommits
    \/ ScanClearCommits
    \/ ScanSaveCommit
    \/ ScanFetchPullRequests
    \/ ScanClearPullRequests
    \/ ScanSavePullRequest
    \/ ScanNextRepo
SpecScan == InitScan /\ [][NextScan]_vars

\* one scan over two repositories, every step of which may fail; the process
\* keeps running (each gh call and each store call returns)
IsolationFixtures ==
    {f \in Fixtures : /\ Len(f.branches) = 2 /\ f.branches[1].ahead_by > 0
                      /\ f.branches[1].behind_by = 0
                      /\ Len(f.prs) = 1 /\ f.prs[1].state = "Open"}
InitIsolation ==
    /\ cl = ClIdle /\ prio = PrioIdle
    /\ StoreInit
    /\ gw \in [Repos -> IsolationFixtures]
    /\ scan = ScanIdle
    /\ hist = [HistInit EXCEPT !.order = ScanOrderTwo, !.scans_left = 1,
                               !.fail_left = MaxStoreFailures]
    /\ ev = EvNone
    /\ ExtIdle
NextIsolation ==
    \/ ScanStart
    \/ ScanSaveRepository
    \/ ScanFetchBranches
    \/ ScanClearBranches
    \/ ScanSaveBranch
    \/ ScanFetchCommits
    \/ ScanClearCommits
    \/ ScanSaveCommit
    \/ ScanFetchPullRequests
    \/ ScanClearPullRequests
    \/ ScanSavePullRequest
    \/ ScanNextRepo
SpecIsolation == InitIsolation /\ [][NextIsolation]_vars /\ WF_vars(NextIsolation)

\* Commands::Export running beside Commands::Scan, each a process of its own
InitExport ==
    /\ cl = ClIdle /\ prio = PrioIdle
    /\ StoreInit
    /\ gw \in [{"r1"} -> {f \in Fixtures : f.fail = "none"}]
    /\ scan = ScanIdle
    /\ hist = [HistInit EXCEPT !.scans_left = MaxScans]
    /\ ev = EvNone
    /\ snap = [SnapIdle EXCEPT !.left = MaxExports]
    /\ repos_json = NoExport /\ srv = SrvIdle /\ db_lock = None
    /\ local_repo_roots = {} /\ local_repo_status = {} /\ race = RaceIdle /\ gate = GateIdle
    /\ AuxIdle
NextExport ==
    \/ ScanStart
    \/ ScanSaveRepository
    \/ ScanFetchBranches
    \/ ScanClearBranches
    \/ ScanSaveBranch
    \/ ScanFetchCommits
    \/ ScanClearCommits
    \/ ScanSaveCommit
    \/ ScanFetchPullRequests
    \/ ScanClearPullRequests
    \/ ScanSavePullRequest
    \/ ScanNextRepo
    \/ ExportStart
    \/ SnapGroupRepos
    \/ SnapReadBranches
    \/ SnapReadPullRequests
    \/ ExportWrite
SpecExport == InitExport /\ [][NextExport]_vars

\* the grouping endpoints served by two handler tasks over a scanned store
InitServer ==
    /\ cl = ClIdle /\ prio = PrioIdle
    /\ repositories \in {{"r1"}, {"r1", "r2"}}
    /\ branches = {} /\ pull_requests = {} /\ commits = {}
    /\ groups = {} /\ repo_groups = {}
    /\ nextId = [groups |-> 1, branches |-> 1, pull_requests |-> 1, commits |-> 1]
    /\ gw = GwQuiet /\ scan = ScanIdle /\ hist = HistInit /\ ev = EvNone
    /\ snap = SnapIdle /\ repos_json = NoExport
    /\ srv = [SrvIdle EXCEPT !.left = MaxRequests]
    /\ db_lock = None
    /\ local_repo_roots = {} /\ local_repo_status = {} /\ race = RaceIdle /\ gate = GateIdle
    /\ AuxIdle
NextServer ==
    \/ \E h \in Handlers, r \in Repos, t \in {None} \cup {Some(g) : g \in GroupIds} :
          HandleMoveRepo(h, r, t)
    \/ \E h \in Handlers, rs \in RepoIdLists, t \in {None} \cup {Some(g) : g \in GroupIds} :
          HandleAddReposToGroup(h, rs, t)
    \/ \E h \in Handlers : HandleAddLoop(h)
    \/ \E h \in Handlers, g \in GroupIds : HandleDeleteGroup(h, g)
    \/ \E h \in Handlers : RegenerateBegin(h)
    \/ SnapGroupRepos
    \/ SnapReadBranches
    \/ SnapReadPullRequests
    \/ \E h \in Handlers : RegenerateWrite(h)
    \/ \E h \in Handlers : HandleRespond(h)
    \/ \E h \in Handlers : HandleDone(h)
SpecServer == InitServer /\ [][NextServer]_vars

\* create_all_prs and scan_local_repos served by two handler tasks
LockFixtures ==
    [branches : {{}, {BranchRow([repo_id |-> "r1", name |-> "feat", ahead_by |-> 1,
                                 behind_by |-> 0, status |-> "ReadyForPR"], 1)}},
     roots : {{}, {[id |-> 1, path |-> <<"/src">>, enabled |-> TRUE]}}
             \cup {{[id |-> 1, path |-> <<"/src">>, enabled |-> TRUE],
                    [id |-> 2, path |-> <<"/work">>, enabled |-> e]} : e \in BOOLEAN}]
InitLocks ==
    /\ cl = ClIdle /\ prio = PrioIdle
    /\ \E f \in LockFixtures :
        /\ branches = f.branches
        /\ local_repo_roots = f.roots
    /\ repositories = {"r1"}
    /\ pull_requests = {} /\ commits = {} /\ groups = {} /\ repo_groups = {}
    /\ nextId = [groups |-> 1, branches |-> 2, pull_requests |-> 1, commits |-> 1]
    /\ gw = GwQuiet /\ scan = ScanIdle /\ hist = HistInit /\ ev = EvNone
    /\ snap = SnapIdle /\ repos_json = NoExport
    /\ srv = [SrvIdle EXCEPT !.left = MaxRequests]
    /\ db_lock = None
    /\ local_repo_status = {} /\ race = RaceIdle /\ gate = GateIdle
    /\ AuxIdle
NextLocks ==
    \/ \E h \in Handlers, r \in Repos : CreateAllPrs(h, r)
    \/ \E h \in Handlers : ScanLocalRepos(h)
    \/ \E h \in Handlers : ReadAndDrop(h)
    \/ \E h \in Handlers : ExternalCall(h)
    \/ \E h \in Handlers : ExternalReturn(h)
    \/ \E h \in Handlers : SaveStatusLock(h)
    \/ \E h \in Handlers : SaveStatus(h)
    \/ \E h \in Handlers : HandleRespond(h)
    \/ \E h \in Handlers : HandleDone(h)
SpecLocks == InitLocks /\ [][NextLocks]_vars

\* two scans of r1 started one after the other, their store calls interleaved
InitRace ==
    /\ cl = ClIdle /\ prio = PrioIdle
    /\ repositories = {"r1"}
    /\ branches = {} /\ pull_requests = {} /\ commits = {}
    /\ groups = {} /\ repo_groups = {}
    /\ nextId = [groups |-> 1, branches |-> 1, pull_requests |-> 1, commits |-> 1]
    /\ \E up \in RaceUpLists : gw = [GwQuiet EXCEPT !["r1"].branches = up]
    /\ scan = ScanIdle
    /\ hist = [HistInit EXCEPT !.changes_left = 1]
    /\ ev = EvNone
    /\ snap = SnapIdle /\ repos_json = NoExport /\ srv = SrvIdle /\ db_lock = None
    /\ local_repo_roots = {} /\ local_repo_status = {}
    /\ AuxIdle
    /\ race = [p \in Scanners |-> [pc |-> "fetch_branches", fetched |-> <<>>, j |-> 0]]
    /\ gate = GateIdle
NextRace ==
    \/ RacePush
    \/ \E p \in Scanners : RaceFetchBranches(p)
    \/ \E p \in Scanners : RaceClearBranches(p)
    \/ \E p \in Scanners : RaceSaveBranch(p)
SpecRace == InitRace /\ [][NextRace]_vars

\* the local root endpoints of one server process, HOME set or not
InitRoots ==
    /\ cl = ClIdle /\ prio = PrioIdle
    /\ StoreInit
    /\ gw = GwQuiet /\ scan = ScanIdle /\ hist = HistInit /\ ev = EvNone
    /\ snap = SnapIdle /\ repos_json = NoExport
    /\ \E home \in {None, Some(HomeDir)} :
          srv = [SrvIdle EXCEPT !.left = MaxRootCalls, !.home = home]
    /\ db_lock = None
    /\ local_repo_roots = {} /\ local_repo_status = {}
    /\ AuxIdle
    /\ race = RaceIdle /\ gate = GateIdle
NextRoots ==
    \/ \E p \in RequestPaths : AddLocalRepoRoot(p)
    \/ \E id \in RootIds : RemoveLocalRepoRoot(id)
SpecRoots == InitRoots /\ [][NextRoots]_vars

\* one call of a gateway function with an owner or repository id
InitGateway ==
    /\ cl = ClIdle /\ prio = PrioIdle
    /\ StoreInit
    /\ gw = GwQuiet /\ scan = ScanIdle /\ hist = HistInit /\ ev = EvNone
    /\ snap = SnapIdle /\ repos_json = NoExport /\ srv = SrvIdle /\ db_lock = None
    /\ local_repo_roots = {} /\ local_repo_status = {} /\ race = RaceIdle
    /\ AuxIdle
    /\ \E op \in GatewayOps, arg \in GateArgs :
          gate = [GateIdle EXCEPT !.op = op, !.arg = arg]
NextGateway == GatewayCall
SpecGateway == InitGateway /\ [][NextGateway]_vars

\* the config calls on a new database
InitConfig ==
    /\ cl = ClIdle /\ prio = PrioIdle
    /\ StoreInit
    /\ gw = GwQuiet /\ scan = ScanIdle /\ hist = HistInit /\ ev = EvNone
    /\ snap = SnapIdle /\ repos_json = NoExport /\ srv = SrvIdle /\ db_lock = None
    /\ local_repo_roots = {} /\ race = RaceIdle /\ gate = GateIdle
    /\ local_repo_status = {} /\ local_hist = LocalHistIdle
    /\ config = {} /\ cfg = [CfgIdle EXCEPT !.left = MaxConfigCalls] /\ mv = MvIdle
NextConfig ==
    \/ \E k \in ConfigKeys, v \in ConfigValues : SetConfig(k, v)
    \/ \E k \in ConfigKeys : GetConfig(k)
SpecConfig == InitConfig /\ [][NextConfig]_vars

\* the grouping calls on the store, move_repo_to_group in its two statements; the
\* caller holds the mutex, so no other grouping call runs inside a move
InitMove ==
    /\ cl = ClIdle /\ prio = PrioIdle
    /\ StoreInit
    /\ gw = GwQuiet /\ scan = ScanIdle /\ hist = HistInit /\ ev = EvNone
    /\ snap = SnapIdle /\ repos_json = NoExport /\ srv = SrvIdle /\ db_lock = None
    /\ local_repo_roots = {} /\ race = RaceIdle /\ gate = GateIdle
    /\ local_repo_status = {} /\ local_hist = LocalHistIdle
    /\ config = {} /\ cfg = CfgIdle /\ mv = [MvIdle EXCEPT !.left = MaxMoves]
NextMove ==
    \/ mv.pc = "idle" /\ \E r \in Repos : SaveRepository(r)
    \/ mv.pc = "idle" /\ \E n \in GroupNames : CreateGroup(n)
    \/ mv.pc = "idle" /\ \E r \in Repos, g \in GroupIds : AddRepoToGroup(r, g)
    \/ \E r \in Repos, g \in GroupIds : MoveBegin(r, g)
    \/ MoveDelete
    \/ MoveCrash
    \/ MoveInsert
    \/ MoveReturn
SpecMove == InitMove /\ [][NextMove]_vars

\* one scan of r1 whose branch has one commit or one more than fetch_commits keeps
LongCommitList == [n \in 1..(CommitLimit + 1) |-> n]
CommitFixtures ==
    [branches : UpBranchLists, prs : {<<>>, <<[number |-> 1, state |-> "Open"]>>},
     commits : UpCommitLists \cup {LongCommitList},
     fail : {"none", "commits"}]
InitCommits ==
    /\ cl = ClIdle /\ prio = PrioIdle
    /\ StoreInit
    /\ gw \in [{"r1"} -> CommitFixtures]
    /\ scan = ScanIdle
    /\ hist = [HistInit EXCEPT !.scans_left = 1, !.fail_left = MaxStoreFailures]
    /\ ev = EvNone
    /\ ExtIdle
NextCommits == NextIsolation
SpecCommits == InitCommits /\ [][NextCommits]_vars

\* the local scan and the root endpoints of one server process
MaxLocalCalls == 2  \* scan and root requests served in one behaviour
MaxGitChanges == 1  \* times the state of a checkout changes in one behaviour
InitLocal ==
    /\ cl = ClIdle /\ prio = PrioIdle
    /\ StoreInit
    /\ gw = GwQuiet /\ scan = ScanIdle /\ hist = HistInit /\ ev = EvNone
    /\ snap = SnapIdle /\ repos_json = NoExport
    /\ srv = [SrvIdle EXCEPT !.left = MaxLocalCalls, !.home = Some(HomeDir)]
    /\ db_lock = None
    /\ local_repo_roots \in {{}, {[id |-> 1, path |-> <<"/src">>, enabled |-> TRUE]}}
    /\ local_repo_status = {}
    /\ config = {} /\ cfg = CfgIdle /\ mv = MvIdle
    /\ \E git \in GitStates :
          local_hist = [LocalHistIdle EXCEPT !.git["r1"] = git,
                                             !.changes_left = MaxGitChanges]
    /\ race = RaceIdle /\ gate = GateIdle
NextLocal ==
    \/ \E git \in GitStates : GitChange("r1", git)
    \/ \E h \in Handlers : ScanLocalRepos(h)
    \/ \E h \in Handlers : ReadAndDrop(h)
    \/ \E h \in Handlers : ExternalCall(h)
    \/ \E h \in Handlers : ExternalReturn(h)
    \/ \E h \in Handlers : SaveStatusLock(h)
    \/ \E h \in Handlers : SaveStatus(h)
    \/ \E h \in Handlers : HandleRespond(h)
    \/ \E h \in Handlers : HandleDone(h)
    \/ \E p \in RequestPaths : AddLocalRepoRoot(p)
    \/ \E id \in RootIds : RemoveLocalRepoRoot(id)
SpecLocal == InitLocal /\ [][NextLocal]_vars

\* a scan of a store in which r1 is saved already and is a member of a group
InitRescan ==
    /\ cl = ClIdle /\ prio = PrioIdle
    /\ repositories = {"r1"}
    /\ branches = {} /\ pull_requests = {} /\ commits = {}
    /\ \E g \in GroupIds :
        /\ groups = {[id |-> i, name |-> "work", display_order |-> i - 1] : i \in 1..g}
        /\ repo_groups = {<<"r1", g>>}
        /\ mv = [MvIdle EXCEPT !.before = {g}]
    /\ nextId = [groups |-> MaxGroups + 1, branches |-> 1, pull_requests |-> 1, commits |-> 1]
    /\ gw \in [{"r1"} -> Fixtures]
    /\ scan = ScanIdle
    /\ hist = [HistInit EXCEPT !.scans_left = MaxScans, !.fail_left = MaxStoreFailures]
    /\ ev = EvNone
    /\ snap = SnapIdle /\ repos_json = NoExport /\ srv = SrvIdle /\ db_lock = None
    /\ local_repo_roots = {} /\ local_repo_status = {} /\ race = RaceIdle /\ gate = GateIdle
    /\ config = {} /\ cfg = CfgIdle /\ local_hist = LocalHistIdle
NextRescan == NextIsolation
SpecRescan == InitRescan /\ [][NextRescan]_vars

Init == InitScan
Next == NextScan
Spec == SpecScan

(***************************************************************************)
(* Properties                                                              *)
(***************************************************************************)

\* C1: every repository is a member of at most one group in every state
\* between two grouping calls.
SingleGroupInvariant ==
    \A r \in Repos : Cardinality(GroupsOf(r)) <= 1

\* C2: when a replace of the branches of R (clear_branches_for_repo, then
\* save_branch for each fetched branch, all succeeding) is over,
\* get_branches_for_repo(R) holds exactly the fetched branches, one row each.
BranchContent(b) ==
    [repo_id |-> b.repo_id, name |-> b.name, ahead_by |-> b.ahead_by,
     behind_by |-> b.behind_by, status |-> b.status]
BranchPhaseOver == scan.pc = "fetch_pull_requests" /\ scan.branches_ok
ReplaceNotMerge ==
    BranchPhaseOver =>
        /\ {BranchContent(b) : b \in get_branches_for_repo(CurRepo)}
             = {BranchContent(scan.fetched[n]) : n \in 1..Len(scan.fetched)}
        /\ Cardinality(get_branches_for_repo(CurRepo)) = Len(scan.fetched)

\* a second replace whose set shares "main" with the first and drops "feat"
ReplaceNotMergeWitness ==
    /\ BranchPhaseOver
    /\ hist.replaces >= 2
    /\ \E b \in hist.prev.branches : b.name = "feat"
    /\ \A n \in 1..Len(scan.fetched) : scan.fetched[n].name # "feat"
    /\ \E b \in hist.prev.branches : b.name = "main"
    /\ \E n \in 1..Len(scan.fetched) : scan.fetched[n].name = "main"

\* C3: when the rescan of R is over (its repository row saved), every stored
\* branch and pull request of R still exists upstream, whether or not the
\* fetches and the clear steps succeeded.
UpstreamBranchNames(r) == {gw[r].branches[n].name : n \in 1..Len(gw[r].branches)}
UpstreamPRNumbers(r) == {gw[r].prs[n].number : n \in 1..Len(gw[r].prs)}
NoStaleRowsAfterRescan ==
    (scan.pc = "next_repo" /\ scan.repo_ok) =>
        /\ \A b \in get_branches_for_repo(CurRepo) : b.name \in UpstreamBranchNames(CurRepo)
        /\ \A p \in get_pull_requests_for_repo(CurRepo) : p.number \in UpstreamPRNumbers(CurRepo)

\* C4: right after delete_group(G) every former member of G is ungrouped, is in
\* no group's member list, and no repository row is gone.
CascadeOnDelete ==
    ev.op = "delete_group" =>
        /\ \A r \in ev.members :
              /\ r \in get_ungrouped_repositories
              /\ \A g \in groups : r \notin get_repos_in_group(g.id)
        /\ repositories = ev.repos_before

\* C5: when the sync of R is over and both fetches and all store calls of R
\* succeeded, the status stored with each branch of R is what
\* classify_branch_status gives for it and the fetched pull requests.
SyncOver == scan.pc = "next_repo" /\ scan.repo_ok /\ scan.branches_ok /\ scan.prs_ok
StoredStatusIsClassified ==
    SyncOver =>
        \A b \in get_branches_for_repo(CurRepo) :
            b.status = classify_branch_status(b, scan.fprs, DefaultBranch)

BranchNameOf(rows, id) ==
    LET bs == {b \in rows.branches : b.id = id}
    IN IF bs = {} THEN "orphan" ELSE (CHOOSE b \in bs : TRUE).name
RowContents(rows) ==
    [branches |-> {BranchContent(b) : b \in rows.branches},
     pull_requests |-> {[repo_id |-> p.repo_id, number |-> p.number, state |-> p.state,
                         branch_id |-> p.branch_id] : p \in rows.pull_requests},
     commits |-> {[branch |-> BranchNameOf(rows, c.branch_id), sha |-> c.sha]
                  : c \in rows.commits},
     counts |-> <<Cardinality(rows.branches), Cardinality(rows.pull_requests),
                  Cardinality(rows.commits)>>]
DefaultBranchIsReadyForPR ==
    (cl.done /\ cl.branch.name = cl.default_branch) => cl.result = "ReadyForPR"

\* the default branch, behind, with an open unlinked pull request in the list
DefaultBranchWitness ==
    /\ cl.done /\ cl.branch.name = cl.default_branch
    /\ cl.branch.behind_by > 0 /\ cl.branch.ahead_by > 0
    /\ Len(cl.prs) > 0 /\ cl.prs[1].state = "Open" /\ is_none(cl.prs[1].branch_id)

\* C8: for a non-default branch whose associated pull request (the one the
\* matching step picks) is Open, the answer is NeedsUpdate when behind_by > 0
\* and InReview when behind_by = 0, whatever ahead_by is.
AssociatedOpen ==
    /\ cl.branch.name # cl.default_branch
    /\ \E i \in 1..Len(cl.prs) :
          /\ is_none(cl.prs[i].branch_id) /\ cl.prs[i].state = "Open"
          /\ \A j \in 1..(i - 1) : ~is_none(cl.prs[j].branch_id)
LinkedTo(b) == {i \in 1..Len(cl.prs) : cl.prs[i].branch_id = Some(b.id)}
UnlinkedIsReadyForPR ==
    (/\ cl.done
     /\ cl.branch.name # cl.default_branch
     /\ \/ LinkedTo(cl.branch) = {}
        \/ \A i \in LinkedTo(cl.branch) : cl.prs[i].state \in {"Closed", "Merged"})
    => cl.result = "ReadyForPR"

\* C10: the score is 0 on unpushed or behind local commits or any diverged
\* branch, else 1 on uncommitted files, else 2 on unmerged_count > 0, else 3.
HasLocal == ~is_none(prio.local_status)
Local == unwrap(prio.local_status)
NeedsSync ==
    \/ HasLocal /\ (Local.unpushed_commits > 0 \/ Local.behind_commits > 0)
    \/ \E n \in 1..Len(prio.repo.branches) :
          prio.repo.branches[n].ahead > 0 \/ prio.repo.branches[n].behind > 0
PriorityIsFirstMatch ==
    prio.done =>
        /\ prio.result \in 0..3
        /\ prio.result = 0 <=> NeedsSync
        /\ prio.result = 1 <=> (~NeedsSync /\ HasLocal /\ Local.uncommitted_files > 0)
        /\ prio.result = 2 <=> (/\ ~NeedsSync
                                /\ ~(HasLocal /\ Local.uncommitted_files > 0)
                                /\ prio.repo.unmerged_count > 0)

\* uncommitted files locally and a diverged second branch: still 0
PriorityWitness ==
    /\ prio.done /\ prio.result = 0
    /\ HasLocal /\ Local.uncommitted_files > 0
    /\ Local.unpushed_commits = 0 /\ Local.behind_commits = 0
    /\ Len(prio.repo.branches) = 2
    /\ prio.repo.branches[1].ahead = 0 /\ prio.repo.branches[1].behind = 0
    /\ prio.repo.branches[2].behind > 0

\* C11: a repository whose only pending item is a stale unmerged branch
\* (ahead > 0, behind = 0, counted in unmerged_count) and whose local state is
\* clean scores 2.
UiUnmerged(repo) ==
    Cardinality({n \in 1..Len(repo.branches) :
                    repo.branches[n].ahead > 0 /\ repo.branches[n].behind = 0})
OnlyStaleUnmerged ==
    /\ UiUnmerged(prio.repo) >= 1
    /\ prio.repo.unmerged_count >= 1
    /\ \A n \in 1..Len(prio.repo.branches) : prio.repo.branches[n].behind = 0
    /\ \/ is_none(prio.local_status)
       \/ /\ unwrap(prio.local_status).unpushed_commits = 0
          /\ unwrap(prio.local_status).behind_commits = 0
          /\ unwrap(prio.local_status).uncommitted_files = 0
StaleUnmergedScoresTwo ==
    (prio.done /\ OnlyStaleUnmerged) => prio.result = 2

\* C12: in every snapshot entry, unmergedCount is the number of stored branches
\* of the repository with ahead_by > 0 and behind_by = 0, and prCount the number
\* of its stored pull requests in state Open.
SnapshotEntries(x) ==
    {x.ungrouped[n] : n \in 1..Len(x.ungrouped)}
    \cup UNION {{x.groups[g].repos[n] : n \in 1..Len(x.groups[g].repos)}
                : g \in 1..Len(x.groups)}
CountersMatchStore(e) ==
    /\ e.unmergedCount =
          Cardinality({b \in e.stored_branches : b.ahead_by > 0 /\ b.behind_by = 0})
    /\ e.prCount = Cardinality({p \in e.stored_prs : p.state = Text("Open")})
InUngrouped(x, r) == \E n \in 1..Len(x.ungrouped) : x.ungrouped[n].id = r
InGroupList(x, g, r) == \E n \in 1..Len(x.groups[g].repos) : x.groups[g].repos[n].id = r
Appearances(x, r) ==
    Cardinality({n \in 1..Len(x.ungrouped) : x.ungrouped[n].id = r})
    + Cardinality({gn \in (1..Len(x.groups)) \X (1..Len(PushedOrder)) :
                      /\ gn[2] <= Len(x.groups[gn[1]].repos)
                      /\ x.groups[gn[1]].repos[gn[2]].id = r})
GroupingMatchesStore(x) ==
    \A r \in x.store.repositories :
        /\ InUngrouped(x, r) <=> ~\E rg \in x.store.repo_groups : rg[1] = r
        /\ \A g \in 1..Len(x.groups) :
              InGroupList(x, g, r) <=> <<r, x.groups[g].id>> \in x.store.repo_groups
        /\ \A sg \in x.store.groups : \E g \in 1..Len(x.groups) : x.groups[g].id = sg.id
EveryRepoExactlyOnce ==
    repos_json.written =>
        /\ GroupingMatchesStore(repos_json)
        /\ \A r \in repos_json.store.repositories : Appearances(repos_json, r) = 1

ReadBranchContents == {BranchContent(b) : b \in snap.bs}
NoHalfWrittenRead ==
    snap.at.read =>
        \/ ReadBranchContents = {BranchContent([b EXCEPT !.status = ParseBranchStatus(b.status)])
                                    : b \in snap.at.prev}
        \/ ReadBranchContents = {BranchContent(snap.at.fetched[n])
                                    : n \in 1..Len(snap.at.fetched)}

\* C15: in a scan over r1, r2 a failure of any step for r1 does not keep the
\* pipeline from running for r2, and the scan runs to completion.
ScanStarted == scan.pc = "save_repository" /\ scan.i = 1
ScanReachesSecond == scan.pc = "save_repository" /\ scan.i = 2
ScanCompleted == scan.pc = "idle" /\ hist.runs >= 1
FailureIsIsolated ==
    /\ ScanStarted ~> ScanReachesSecond
    /\ ScanStarted ~> ScanCompleted

\* the scan is over, a fetch of r1 failed and a store call failed before r2
\* was reached, and r2 has its branches and its pull request stored
FailureIsolatedWitness ==
    /\ ScanCompleted
    /\ ~hist.clean_cur
    /\ gw["r1"].fail # "none"
    /\ \A b \in branches : b.repo_id # "r1"
    /\ \E b \in branches : b.repo_id = "r2"
    /\ \E p \in pull_requests : p.repo_id = "r2"

\* C16: create_all_prs and scan_local_repos do not hold the database mutex while
\* an external call (gh pr create, the walk of a root, git status) is in
\* progress; a handler that holds the mutex is at a store call: the first read,
\* or the save of one status
InExternalCall(h) == srv.thr[h].pc \in ExternalCalls
LockNotHeldAcrossExternalCalls ==
    \A h \in Handlers :
        /\ InExternalCall(h) => db_lock # Some(h)
        /\ db_lock = Some(h) => srv.thr[h].pc \in {"locked", "saving"}
\* one handler inside git status while the other holds the mutex to save a status
LockWitness ==
    \E h, k \in Handlers :
        /\ srv.thr[h].pc = "get_repo_status"
        /\ srv.thr[k].pc = "saving"
        /\ db_lock = Some(k)

\* C18: when two scans of the same repository have both completed with their
\* store calls interleaved, the stored branch set of the repository is the set
\* one of them wrote, never a mixture of the two
BranchContents(rows) ==
    {[name |-> b.name, ahead_by |-> b.ahead_by, behind_by |-> b.behind_by] : b \in rows}
WrittenBy(p) ==
    {[name |-> race[p].fetched[n].name, ahead_by |-> race[p].fetched[n].ahead_by,
      behind_by |-> race[p].fetched[n].behind_by] : n \in 1..Len(race[p].fetched)}
LastWriterWins ==
    (\A p \in Scanners : race[p].pc = "done")
        => \E p \in Scanners :
              BranchContents({b \in branches : b.repo_id = "r1"}) = WrittenBy(p)

\* C19: adding a local root whose (expanded) path is already configured is
\* answered CONFLICT, which is not the answer given to any other storage
\* failure, and the configured roots stay as they were
AddedExisting ==
    /\ srv.resp.op = "add_local_repo_root"
    /\ \E r \in srv.resp.before : r.path = srv.resp.path
    /\ srv.resp.err # DiskError
ConflictIsDistinct ==
    /\ AddedExisting => srv.resp.status = "CONFLICT" /\ local_repo_roots = srv.resp.before
    /\ srv.resp.err = DiskError =>
          srv.resp.status = "INTERNAL_SERVER_ERROR" /\ local_repo_roots = srv.resp.before
\* "~/src" asked for while "/home/u/src" is configured: the same path once expanded
ConflictWitness ==
    /\ AddedExisting
    /\ srv.home # None
    /\ srv.resp.path = <<"/home/u", "/src">>
    /\ srv.resp.status = "CONFLICT"
    /\ Cardinality(local_repo_roots) = 2

\* C20: every gateway operation (list_repos, fetch_branches, fetch_pull_requests,
\* fetch_commits, create_pull_request) rejects a malformed owner name or a
\* malformed repository id (not of the form owner/name) with an error, and gh is
\* not run for it
MalformedArg ==
    IF gate.op = "list_repos" THEN ~validate_owner(gate.arg)
    ELSE split_parts(gate.arg) # 2
MalformedRejectedBeforeGh ==
    (gate.done /\ MalformedArg) => (gate.rejected /\ ~gate.gh_run)

\* C21: get_config(k) returns the value of the most recent set_config(k, v) and
\* None when k was never set; a set_config on one key leaves every other key's
\* value as it was
ConfigReturnsLastSet ==
    /\ \A k \in ConfigKeys : get_config(config, k) = cfg.last[k]
    /\ cfg.got.value = cfg.got.expected
\* k1 read as v2 after it was set to v1 and then to v2, with k2 set in between
\* and still v1
ConfigWitness ==
    /\ cfg.got.key = "k1" /\ cfg.got.value = Some("v2")
    /\ cfg.prev["k1"] = Some("v1")
    /\ get_config(config, "k2") = Some("v1")

\* C22: move_repo_to_group(R, T) never leaves R in two groups: once its delete
\* step is done (also after a crash there, or a failed insert) R is in no group,
\* and after a successful call R is in group T and no other, whatever groups R
\* was in before
MoveNeverTwoGroups ==
    /\ mv.pc \in {"between", "crashed", "err_insert"} => GroupsOf(mv.repo_id) = {}
    /\ mv.pc = "ok" => GroupsOf(mv.repo_id) = {mv.group_id}
\* a repository that was in two groups, moved with success
MoveWitness ==
    /\ mv.pc = "ok"
    /\ Cardinality(mv.before) = 2
\* the same repository after a crash between the two statements
MoveCrashWitness ==
    /\ mv.pc = "crashed"
    /\ Cardinality(mv.before) = 2

\* C23: a group created by add_repos_to_group gets display_order 1 + the largest
\* display_order of the groups existing at that moment, or 0 when there is none,
\* so no two stored groups have the same display_order
DisplayOrderIsNext ==
    /\ srv.created.id # 0 =>
          srv.created.display_order = max_order(srv.created.existing) + 1
    /\ \A g1, g2 \in groups : g1.id # g2.id => g1.display_order # g2.display_order

\* C24: during a scan the commits of a branch are fetched (and then replaced) if
\* and only if the branch was saved and has ahead_by > 0, and one scan stores at
\* most 50 commits for a branch
CommitsIffSavedAhead ==
    /\ scan.pc \in {"fetch_commits", "clear_commits", "save_commit"} =>
          \E b \in branches : /\ b.id = scan.branch_id /\ b.ahead_by > 0
                               /\ b.name = scan.fetched[scan.j].name
    /\ \A b \in branches : b.id \in hist.asked => b.ahead_by > 0
    /\ \A b \in branches :
          b.ahead_by > 0 => b.id \in hist.asked \/ (scan.pc = "fetch_commits" /\ scan.branch_id = b.id)
    /\ \A c \in commits : \E b \in branches : b.id = c.branch_id /\ b.ahead_by > 0
    /\ \A b \in branches : Cardinality(get_commits_for_branch(b.id)) <= CommitLimit
\* the scan is over: upstream has 51 commits on feat, 50 of them are stored for
\* the saved branch, and main (ahead_by 0) has none
CommitsWitness ==
    /\ scan.pc = "idle" /\ hist.runs = 1
    /\ Len(gw["r1"].commits) = CommitLimit + 1
    /\ \E b \in branches : /\ b.name = "feat" /\ b.ahead_by > 0
                           /\ Cardinality(get_commits_for_branch(b.id)) = CommitLimit
    /\ \E b \in branches : b.name = "main" /\ get_commits_for_branch(b.id) = {}

\* C26: every status that get_repo_status produced and a local scan stored has
\* is_dirty = (uncommitted_files > 0 or unpushed_commits > 0), whatever
\* behind_commits is, and without a current branch both counts are 0
ProducedStatuses ==
    local_repo_status \cup UNION {srv.thr[h].status : h \in Handlers}
DirtyIsUncommittedOrUnpushed ==
    \A s \in ProducedStatuses :
        /\ s.is_dirty = (s.uncommitted_files > 0 \/ s.unpushed_commits > 0)
        /\ s.current_branch = None => s.unpushed_commits = 0 /\ s.behind_commits = 0
        /\ \A t \in ProducedStatuses :
              (t.uncommitted_files = s.uncommitted_files
               /\ t.unpushed_commits = s.unpushed_commits) => t.is_dirty = s.is_dirty
DirtyWitness ==
    \E s \in local_repo_status :
        s.current_branch # None /\ s.behind_commits > 0 /\ ~s.is_dirty

\* C25: a repository whose status was stored once has exactly one stored
\* status, the one saved last for it, whatever scans, root additions and root
\* removals follow and whether or not its directory is still found
StatusKept ==
    \A r \in Repos :
        local_hist.last[r] # None =>
            {s \in local_repo_status : s.repo_id = r} = local_hist.last[r]
StatusKeptWitness ==
    /\ "r1" \in local_hist.missed
    /\ local_hist.last["r1"] # None
    /\ \E s \in local_repo_status : s.repo_id = "r1"
    /\ \A h \in Handlers : srv.thr[h].pc \in {"idle", "done"}

\* C27: for a branch that is not the default branch the classification is the
\* one of the first pull request of the list without a branch_id alone: linked
\* pull requests and later unlinked ones change nothing (a first unlinked
\* Closed before an unlinked Open gives ReadyForPR), and every other
\* non-default branch is classified by that same pull request
FirstUnlinked(prs) ==
    {i \in 1..Len(prs) : /\ prs[i].branch_id = None
                         /\ \A j \in 1..(i - 1) : prs[j].branch_id # None}
OnlyFirstUnlinked(prs) ==
    IF FirstUnlinked(prs) = {} THEN <<>> ELSE <<prs[CHOOSE i \in FirstUnlinked(prs) : TRUE]>>
ByStateOfFirstUnlinked(branch, prs) ==
    IF FirstUnlinked(prs) = {} THEN "ReadyForPR"
    ELSE LET pr == prs[CHOOSE i \in FirstUnlinked(prs) : TRUE]
         IN IF pr.state = "Open"
            THEN IF branch.behind_by > 0 THEN "NeedsUpdate" ELSE "InReview"
            ELSE "ReadyForPR"
LinkedSkippedWitness ==
    /\ cl.done
    /\ cl.branch.name # cl.default_branch
    /\ cl.prs = <<[branch_id |-> Some(cl.branch.id), state |-> "Closed"],
                  [branch_id |-> None, state |-> "Open"]>>
    /\ cl.result = "InReview"

MoveInsertFailed(h) ==
    /\ srv.thr[h].pc = "idle"
    /\ srv'.thr[h].pc # "idle"
    /\ srv'.thr[h].op = "move_repo"
    /\ mv' # mv
    /\ \A g \in groups : g.id # mv'.group_id
FailedMoveUngroupsNoRegen ==
    [][\A h \in Handlers :
          /\ MoveInsertFailed(h) =>
                /\ srv'.thr[h].pc = "failed"
                /\ mv'.pc = "err_insert"
                /\ {rg \in repo_groups' : rg[1] = mv'.repo_id} = {}
          /\ (srv.thr[h].pc = "failed" /\ srv'.thr[h] # srv.thr[h]) =>
                /\ srv'.thr[h].pc = "done"
                /\ ~srv'.thr[h].success
                /\ srv'.thr[h].regen_ver = srv.thr[h].regen_ver
                /\ repos_json' = repos_json]_vars
FailedMoveWitness ==
    /\ mv.pc = "err_insert"
    /\ mv.before # {}
    /\ GroupsOf(mv.repo_id) = {}
    /\ \E h \in Handlers :
          /\ srv.thr[h].op = "move_repo"
          /\ srv.thr[h].pc = "done"
          /\ ~srv.thr[h].success
          /\ srv.thr[h].regen_ver = 0

====
